---------------------------- MODULE Spec2Model ----------------------------
(***************************************************************************)
(* loglady: the dispatcher (Logger.log), the three built-in destinations,  *)
(* the completion queue and logger.flush, on a JavaScript event loop: a    *)
(* FIFO microtask queue, promises with their reactions in registration     *)
(* order, and fetch completions arriving as macrotasks.                    *)
(***************************************************************************)
EXTENDS Integers, Sequences, FiniteSets, TLC

VARIABLES
  env,          \* process.env, read once by the destination constructors
  loaded,       \* TRUE iff `new Logger(_queue)` returned (no constructor threw)
  destinations, \* Logger._destinations, in registration order
  handles,      \* every TrackedPromise ever created, by identity (index)
  queue,        \* _queue: the identities of the tracked promises it holds
  microtasks,   \* the engine's FIFO queue of promise jobs
  flushes,      \* one record per flush() call
  calls,        \* per destination name: how often its log() was invoked
  nDispatch,    \* log calls that passed the arity check
  unhandled,    \* promises that rejected with no reaction attached
  last,         \* what the last step did (the caller's view of it)
  probe,        \* the last direct call of a library function: its
                \* arguments and what it returned
  config,       \* _logConfig of index.ts
  getContext,   \* the context provider installed (internal context hook)
  store,        \* what each provider would return if it were called now
  requests,     \* logical requests sharing the logger: where each one is
  imports       \* destination modules whose dynamic import is pending

vars == <<env, loaded, destinations, handles, queue, microtasks, flushes,
          calls, nDispatch, unhandled, last, probe, config, getContext, store, requests, imports>>

----------------------------------------------------------------------------
(* Bounds *)

MaxDispatch == 2
MaxFlush == 2
MaxFetch == MaxDispatch

----------------------------------------------------------------------------
(* Helpers *)

Range(s) == {s[i] : i \in 1..Len(s)}

Undefined == "<undefined>"

----------------------------------------------------------------------------
(* Level ordering: lib/log-level.ts *)

\* The mapper of the earlier library: uppercase names only.
levelMapperLegacy ==
  [l \in {"DEBUG", "INFO", "WARN", "ERROR"} |->
     CASE l = "DEBUG" -> 0
       [] l = "INFO" -> 1
       [] l = "WARN" -> 2
       [] l = "ERROR" -> 3]

\* A mapper whose lowercase spellings sit one step above the uppercase ones.
levelMapperShifted ==
  [l \in {"DEBUG", "debug", "INFO", "info", "WARN", "warn", "ERROR", "error"} |->
     CASE l = "DEBUG" -> 0
       [] l \in {"INFO", "debug"} -> 1
       [] l \in {"WARN", "info"} -> 2
       [] l \in {"ERROR", "warn"} -> 3
       [] l = "error" -> 4]

levelMapper ==
  [l \in {"DEBUG", "debug", "INFO", "info", "WARN", "warn", "ERROR", "error"} |->
     CASE l \in {"DEBUG", "debug"} -> 0
       [] l \in {"INFO", "info"} -> 1
       [] l \in {"WARN", "warn"} -> 2
       [] l \in {"ERROR", "error"} -> 3]

\* The mapper is an object literal, so a key it does not own is looked up on
\* Object.prototype: these names give a function (or, for __proto__, the
\* prototype object), not undefined.
ObjectPrototypeKeys ==
  {"constructor", "toString", "toLocaleString", "valueOf", "hasOwnProperty",
   "isPrototypeOf", "propertyIsEnumerable", "__proto__"}

\* mapper[key]: an own number, an inherited member, or undefined.
PropertyOf(mapper, key) ==
  IF key \in DOMAIN mapper THEN [kind |-> "number", n |-> mapper[key]]
  ELSE IF key \in ObjectPrototypeKeys THEN [kind |-> "object", n |-> 0]
  ELSE [kind |-> "undefined", n |-> 0]

NumberValue(n) == [kind |-> "number", n |-> n]

\* a >= b: an operand that is undefined, a function or a plain object becomes
\* NaN, and every comparison with NaN is false.
GreaterOrEqual(a, b) == a.kind = "number" /\ b.kind = "number" /\ a.n >= b.n

\* Accepts every key that gives anything but undefined.
validateLogLevelDefined(logLevel) ==
  PropertyOf(levelMapper, logLevel).kind # "undefined"

\* validateLogLevel: levelMapper[logLevel] >= 0 inside try/catch.
validateLogLevel(logLevel) ==
  GreaterOrEqual(PropertyOf(levelMapper, logLevel), NumberValue(0))

\* The comparison of the earlier library (lib/log-level.ts:10-15): no check
\* of either side, over the uppercase mapper.
canLogAtLevelUnchecked(messageLevel, minimumLogLevel) ==
  [threw |-> FALSE,
   value |-> GreaterOrEqual(PropertyOf(levelMapperLegacy, messageLevel),
                            PropertyOf(levelMapperLegacy, minimumLogLevel))]

\* The checked comparison over the uppercase mapper.
canLogAtLevelLegacy(messageLogLevel, minimumLogLevel) ==
  LET messageLevelValue == PropertyOf(levelMapperLegacy, messageLogLevel)
      minimumLogLevelValue == PropertyOf(levelMapperLegacy, minimumLogLevel)
  IN IF messageLevelValue.kind = "undefined"
       THEN [threw |-> TRUE, value |-> FALSE]
     ELSE IF minimumLogLevelValue.kind = "undefined"
       THEN [threw |-> TRUE, value |-> FALSE]
     ELSE [threw |-> FALSE,
           value |-> GreaterOrEqual(messageLevelValue, minimumLogLevelValue)]

\* A comparison that lets through only what is strictly above the minimum.
canLogAtLevelStrict(messageLogLevel, minimumLogLevel) ==
  [threw |-> messageLogLevel \notin DOMAIN levelMapper
             \/ minimumLogLevel \notin DOMAIN levelMapper,
   value |-> /\ messageLogLevel \in DOMAIN levelMapper
             /\ minimumLogLevel \in DOMAIN levelMapper
             /\ levelMapper[messageLogLevel] > levelMapper[minimumLogLevel]]

\* canLogAtLevel: throws when a side gives undefined, the message level being
\* looked at first; otherwise messageLevelValue >= minimumLogLevelValue.
canLogAtLevel(messageLogLevel, minimumLogLevel) ==
  LET messageLevelValue == PropertyOf(levelMapper, messageLogLevel)
      minimumLogLevelValue == PropertyOf(levelMapper, minimumLogLevel)
  IN IF messageLevelValue.kind = "undefined"
       THEN [threw |-> TRUE, value |-> FALSE]
     ELSE IF minimumLogLevelValue.kind = "undefined"
       THEN [threw |-> TRUE, value |-> FALSE]
     ELSE [threw |-> FALSE,
           value |-> GreaterOrEqual(messageLevelValue, minimumLogLevelValue)]

----------------------------------------------------------------------------
(* Placeholder matching: Logger.log, logger.ts:145                          *)
(* /{[a-zæøåA-ZÆØÅ0-9]+}|{@[a-zæøåA-ZÆØÅ0-9]+}/g over a template given as a  *)
(* sequence of one-character strings.                                      *)

AlnumChars ==
  {"a", "b", "c", "d", "e", "f", "g", "h", "i", "j", "k", "l", "m", "n", "o",
   "p", "q", "r", "s", "t", "u", "v", "w", "x", "y", "z", "æ", "ø", "å",
   "A", "B", "C", "D", "E", "F", "G", "H", "I", "J", "K", "L", "M", "N", "O",
   "P", "Q", "R", "S", "T", "U", "V", "W", "X", "Y", "Z", "Æ", "Ø", "Å",
   "0", "1", "2", "3", "4", "5", "6", "7", "8", "9"}

RECURSIVE RunEnd(_, _)
\* The index of the last character of the maximal run of class characters
\* that starts at i (i - 1 when the run is empty).
RunEnd(t, i) ==
  IF i <= Len(t) /\ t[i] \in AlnumChars THEN RunEnd(t, i + 1) ELSE i - 1

\* The index at which a placeholder token starting at i ends, 0 when no
\* token starts at i. The first alternative is tried before the second.
TokenEnd(t, i) ==
  IF t[i] # "{" THEN 0
  ELSE LET r1 == RunEnd(t, i + 1)
           r2 == RunEnd(t, i + 2)
       IN IF r1 >= i + 1 /\ r1 + 1 <= Len(t) /\ t[r1 + 1] = "}" THEN r1 + 1
          ELSE IF i + 1 <= Len(t) /\ t[i + 1] = "@" /\ r2 >= i + 2
                  /\ r2 + 1 <= Len(t) /\ t[r2 + 1] = "}" THEN r2 + 1
          ELSE 0

RECURSIVE MatchFrom(_, _)
MatchFrom(t, i) ==
  IF i > Len(t) THEN <<>>
  ELSE LET e == TokenEnd(t, i)
       IN IF e = 0 THEN MatchFrom(t, i + 1)
          ELSE <<SubSeq(t, i, e)>> \o MatchFrom(t, e + 1)

\* messageTemplate.match(...) ?? []: the tokens, left to right.
messageParameters(messageTemplate) == MatchFrom(messageTemplate, 1)

\* param.replace(/[{}]/g, "").replace(/@/g, ""): the property key of a token.
cleanParam(param) == SelectSeq(param, LAMBDA c : c \notin {"{", "}", "@"})

RECURSIVE placeholderPropertiesFirstWins(_, _, _, _)
RECURSIVE placeholderProperties(_, _, _, _)
\* The first value written under a key is kept.
placeholderPropertiesFirstWins(tokens, params, i, acc) ==
  IF i > Len(tokens) THEN acc
  ELSE LET key == cleanParam(tokens[i])
       IN placeholderPropertiesFirstWins(tokens, params, i + 1,
            [k \in (DOMAIN acc) \cup {key} |->
               IF k \in DOMAIN acc THEN acc[k] ELSE params[i]])

\* properties[cleanParam] = paramValue, token by token: last write wins.
placeholderProperties(tokens, params, i, acc) ==
  IF i > Len(tokens) THEN acc
  ELSE LET key == cleanParam(tokens[i])
       IN placeholderProperties(tokens, params, i + 1,
            [k \in (DOMAIN acc) \cup {key} |->
               IF k = key THEN params[i] ELSE acc[k]])

EmptyProps == [k \in {} |-> "string"]

----------------------------------------------------------------------------
(* Rendering the message: Logger.log, logger.ts:152-164. Texts are          *)
(* sequences of one-character strings; a parameter value is a record with  *)
(* its kind and, where it has one, its text.                               *)

StringValue(text) == [kind |-> "string", text |-> text]

NullValue == [kind |-> "null", text |-> <<>>]

UndefinedValue == [kind |-> "undefined", text |-> <<>>]

\* The object {}.
EmptyObject == [kind |-> "object", text |-> <<>>]

\* getParameterValue(placeholderParam, paramValue), logger.ts:73-83.
getParameterValue(param, value) ==
  IF value.kind \in {"undefined", "null"} THEN <<"N", "U", "L", "L">>
  ELSE IF param # <<>> /\ Head(param) = "@" /\ value.kind = "object"
    THEN <<"{", "}">>
  ELSE IF value.kind = "object"
    THEN <<"[", "o", "b", "j", "e", "c", "t", " ",
           "O", "b", "j", "e", "c", "t", "]">>
  ELSE value.text

RECURSIVE IndexOf(_, _, _)
\* The first position at or after i where pattern occurs in str, 0 if none.
IndexOf(str, pattern, i) ==
  IF i + Len(pattern) - 1 > Len(str) THEN 0
  ELSE IF SubSeq(str, i, i + Len(pattern) - 1) = pattern THEN i
  ELSE IndexOf(str, pattern, i + 1)

\* The grave accent character (U+0060).
GraveAccent == "<grave accent>"

RECURSIVE GetSubstitution(_, _, _, _, _)
\* The replacement text of String.prototype.replace with a string pattern:
\* $$ gives $, $& the matched text, $ with a grave accent the text before
\* the match and $ with an apostrophe the text after it; every other
\* character stands for itself.
GetSubstitution(replacement, i, matched, before, after) ==
  IF i > Len(replacement) THEN <<>>
  ELSE IF replacement[i] = "$" /\ i < Len(replacement)
            /\ replacement[i + 1] \in {"$", "&", GraveAccent, "'"}
    THEN (CASE replacement[i + 1] = "$" -> <<"$">>
            [] replacement[i + 1] = "&" -> matched
            [] replacement[i + 1] = GraveAccent -> before
            [] OTHER -> after)
         \o GetSubstitution(replacement, i + 2, matched, before, after)
  ELSE <<replacement[i]>>
         \o GetSubstitution(replacement, i + 1, matched, before, after)

\* message.replace(param, messageValue): the first occurrence of the token's
\* text in the message as it is now, replaced by the expanded value.
replace(message, param, messageValue) ==
  LET pos == IndexOf(message, param, 1)
  IN IF pos = 0 THEN message
     ELSE LET before == SubSeq(message, 1, pos - 1)
              after == SubSeq(message, pos + Len(param), Len(message))
          IN before \o GetSubstitution(messageValue, 1, param, before, after)
                    \o after

RECURSIVE substitute(_, _, _, _)
\* messageParameters.forEach((param, index) => { ... message =
\* message.replace(param, messageValue.toString()) ... })
substitute(tokens, params, i, message) ==
  IF i > Len(tokens) THEN message
  ELSE LET placeholderParam ==
             SelectSeq(tokens[i], LAMBDA c : c \notin {"{", "}"})
           messageValue == getParameterValue(placeholderParam, params[i])
       IN substitute(tokens, params, i + 1,
                     replace(message, tokens[i], messageValue))

\* Logger.log up to the message: the arity check, then the substitution.
format(messageTemplate, params) ==
  LET tokens == messageParameters(messageTemplate)
  IN IF Len(params) # Len(tokens)
       THEN [threw |-> TRUE, message |-> <<>>]
       ELSE [threw |-> FALSE,
             message |-> substitute(tokens, params, 1, messageTemplate)]

----------------------------------------------------------------------------
(* The log configuration and the message object: index.ts logConfig,        *)
(* Logger.createPropertiesObject and Logger.log, logger.ts:152-178.         *)
(* A configuration maps the keys it owns to texts; the text UndefinedSeq    *)
(* stands for the value undefined.                                          *)

UndefinedSeq == <<Undefined>>

contextId == <<"c", "o", "n", "t", "e", "x", "t", "I", "d">>

prefix == <<"p", "r", "e", "f", "i", "x">>

suffix == <<"s", "u", "f", "f", "i", "x">>

\* An assignment in place of the merge.
spreadReplace(a, b) == b

\* { ...a, ...b }: the keys of both, b's value where b owns the key.
spread(a, b) ==
  [k \in (DOMAIN a) \cup (DOMAIN b) |-> IF k \in DOMAIN b THEN b[k] ELSE a[k]]

\* logConfig.key: undefined when the key is not owned.
Get(logConfig, key) ==
  IF key \in DOMAIN logConfig THEN logConfig[key] ELSE UndefinedSeq

\* !value: undefined and the empty string are falsy.
Falsy(value) == value = UndefinedSeq \/ value = <<>>

UpperAlphabet ==
  <<"A", "B", "C", "D", "E", "F", "G", "H", "I", "J", "K", "L", "M", "N", "O",
    "P", "Q", "R", "S", "T", "U", "V", "W", "X", "Y", "Z">>

LowerAlphabet ==
  <<"a", "b", "c", "d", "e", "f", "g", "h", "i", "j", "k", "l", "m", "n", "o",
    "p", "q", "r", "s", "t", "u", "v", "w", "x", "y", "z">>

toUpperCaseChar(c) ==
  IF \E i \in 1..Len(LowerAlphabet) : LowerAlphabet[i] = c
    THEN UpperAlphabet[CHOOSE i \in 1..Len(LowerAlphabet) : LowerAlphabet[i] = c]
    ELSE c

\* key.charAt(0).toUpperCase() + key.slice(1)
pascalCase(key) ==
  IF key = <<>> THEN <<>> ELSE <<toUpperCaseChar(Head(key))>> \o Tail(key)

\* getRuntimeInfo(pkg): APP_NAME before the package's name, the package's
\* version, NODE_ENV or "production".  UndefinedSeq stands for undefined.
getRuntimeInfo(appNameEnv, environmentNameEnv, pkg) ==
  [appName |-> IF appNameEnv # UndefinedSeq THEN appNameEnv ELSE pkg.name,
   version |-> pkg.version,
   environmentName |-> IF environmentNameEnv # UndefinedSeq
                         THEN environmentNameEnv
                         ELSE <<"p", "r", "o", "d", "u", "c", "t", "i", "o", "n">>]

\* getCallingInfo() found no caller in the stack.
UndefinedCallingInfo == [kind |-> "undefined"]

\* The caller getCallingInfo() parsed from the stack; the line and the
\* column are numbers.
CallingInfo(functionName, fileName, filePath, lineNumber, columnNumber) ==
  [kind |-> "callingInfo",
   functionName |-> StringValue(functionName),
   fileName |-> StringValue(fileName),
   filePath |-> StringValue(filePath),
   lineNumber |-> [kind |-> "number", text |-> lineNumber],
   columnNumber |-> [kind |-> "number", text |-> columnNumber]]

\* properties[key] = value for every entry, over what the object holds.
assign(properties, entries) ==
  [k \in (DOMAIN properties) \cup (DOMAIN entries) |->
     IF k \in DOMAIN entries THEN entries[k] ELSE properties[k]]

\* The entries of the runtime information that are defined.
runtimeProperties(runtimeInfo) ==
  LET fields == <<<<<<"A", "p", "p", "N", "a", "m", "e">>,
                    runtimeInfo.appName>>,
                  <<<<"V", "e", "r", "s", "i", "o", "n">>,
                    runtimeInfo.version>>,
                  <<<<"E", "n", "v", "i", "r", "o", "n", "m", "e", "n", "t", "N", "a", "m", "e">>,
                    runtimeInfo.environmentName>>>>
      kept == {i \in 1..3 : fields[i][2] # UndefinedSeq}
  IN [K \in {fields[i][1] : i \in kept} |->
        StringValue(fields[CHOOSE i \in kept : fields[i][1] = K][2])]

\* The entries of the configuration whose value is truthy, under their
\* PascalCase key.
configProperties(logConfig) ==
  LET kept == {k \in DOMAIN logConfig : ~Falsy(logConfig[k])}
  IN [K \in {pascalCase(k) : k \in kept} |->
        StringValue(logConfig[CHOOSE k \in kept : pascalCase(k) = K])]

\* The five entries of the caller, when there is one.
callingProperties(callingInfo) ==
  IF callingInfo.kind = "undefined" THEN <<>>
  ELSE LET fields == <<<<<<"F", "u", "n", "c", "t", "i", "o", "n", "N", "a", "m", "e">>,
                    callingInfo.functionName>>,
                       <<<<"F", "i", "l", "e", "N", "a", "m", "e">>,
                    callingInfo.fileName>>,
                       <<<<"F", "i", "l", "e", "P", "a", "t", "h">>,
                    callingInfo.filePath>>,
                       <<<<"L", "i", "n", "e", "N", "u", "m", "b", "e", "r">>,
                    callingInfo.lineNumber>>,
                       <<<<"C", "o", "l", "u", "m", "n", "N", "u", "m", "b", "e", "r">>,
                    callingInfo.columnNumber>>>>
       IN [K \in {fields[i][1] : i \in 1..5} |->
             fields[CHOOSE i \in 1..5 : fields[i][1] = K][2]]

\* createPropertiesObject(logConfig) of the logger this: the runtime
\* information, then the configuration, then the caller, each assignment
\* over what the object holds.
createPropertiesObject(this, logConfig) ==
  assign(assign(runtimeProperties(this.runtimeInfo),
                configProperties(logConfig)),
         callingProperties(this.callingInfo))

\* params[index] ?? null
NullishCoalesce(value) ==
  IF value.kind \in {"undefined", "null"} THEN NullValue ELSE value

\* The prefix put in front before the placeholders are replaced.
withPrefixFirst(logConfig, messageTemplate, tokens, params) ==
  LET prefixed == IF Falsy(Get(logConfig, prefix)) THEN messageTemplate
                  ELSE Get(logConfig, prefix) \o <<" ", "-", " ">>
                         \o messageTemplate
      message == substitute(tokens, params, 1, prefixed)
  IN IF Falsy(Get(logConfig, suffix)) THEN message
     ELSE message \o <<" ", "-", " ">> \o Get(logConfig, suffix)

\* The message text: the placeholders replaced, then the prefix in front and
\* the suffix behind, each when truthy.
withPrefixAndSuffix(logConfig, messageTemplate, tokens, params) ==
  LET message == substitute(tokens, params, 1, messageTemplate)
      prefixed == IF Falsy(Get(logConfig, prefix)) THEN message
                  ELSE Get(logConfig, prefix) \o <<" ", "-", " ">> \o message
  IN IF Falsy(Get(logConfig, suffix)) THEN prefixed
     ELSE prefixed \o <<" ", "-", " ">> \o Get(logConfig, suffix)

\* getFactSetValue(value) of the Teams card: typeof null is 'object', so
\* null goes through JSON.stringify like any object.
getFactSetValue(value) ==
  IF value.kind = "null" THEN <<"n", "u", "l", "l">>
  ELSE IF value.kind = "object" THEN <<"{", "}">>
  ELSE value.text

\* The enrichment written over the placeholders.
messageObjectEnrichmentLast(this, logConfig, messageTemplate, params) ==
  LET tokens == messageParameters(messageTemplate)
  IN IF Len(params) # Len(tokens)
       THEN [threw |-> TRUE]
       ELSE [threw |-> FALSE,
             messageTemplate |-> messageTemplate,
             message |-> withPrefixAndSuffix(logConfig, messageTemplate,
                                             tokens, params),
             properties |->
               assign(placeholderProperties(tokens,
                        [i \in 1..Len(params) |-> NullishCoalesce(params[i])],
                        1, EmptyProps),
                      createPropertiesObject(this, logConfig))]

\* The messageObject Logger.log hands to the destinations, or the arity
\* error.
messageObject(this, logConfig, messageTemplate, params) ==
  LET tokens == messageParameters(messageTemplate)
  IN IF Len(params) # Len(tokens)
       THEN [threw |-> TRUE]
       ELSE [threw |-> FALSE,
             messageTemplate |-> messageTemplate,
             message |-> withPrefixAndSuffix(logConfig, messageTemplate,
                                             tokens, params),
             properties |->
               placeholderProperties(tokens,
                 [i \in 1..Len(params) |-> NullishCoalesce(params[i])], 1,
                 createPropertiesObject(this, logConfig))]

\* const _logger = new Logger(_queue) of a process without APP_NAME and
\* NODE_ENV whose package.json names the application, called from f at
\* a.js:7:3.
_logger ==
  [runtimeInfo |-> getRuntimeInfo(UndefinedSeq, UndefinedSeq,
                                  [name |-> <<"p", "k", "g">>,
                                   version |-> <<"1">>]),
   callingInfo |-> CallingInfo(<<"f">>, <<"a", ".", "j", "s">>,
                               <<"/", "a", ".", "j", "s">>, <<"7">>, <<"3">>)]

----------------------------------------------------------------------------
(* Environment and destination construction *)

Whitespace == {" ", "\t", "\n"}

toLowerCaseChar(c) ==
  IF \E i \in 1..Len(UpperAlphabet) : UpperAlphabet[i] = c
    THEN LowerAlphabet[CHOOSE i \in 1..Len(UpperAlphabet) : UpperAlphabet[i] = c]
    ELSE c

toLowerCase(s) == [i \in 1..Len(s) |-> toLowerCaseChar(s[i])]

RECURSIVE trimStart(_)
trimStart(s) ==
  IF s # <<>> /\ Head(s) \in Whitespace THEN trimStart(Tail(s)) ELSE s

RECURSIVE trimEnd(_)
trimEnd(s) ==
  IF s # <<>> /\ s[Len(s)] \in Whitespace
    THEN trimEnd(SubSeq(s, 1, Len(s) - 1)) ELSE s

\* The value taken as it is.
trimNone(s) == s

trim(s) == trimEnd(trimStart(s))

\* (process.env[X] as LogLevel) || fallback: undefined and "" are falsy.
OrDefault(v, fallback) == IF v = Undefined \/ v = "" THEN fallback ELSE v

\* ConsoleDestination constructor, Console/index.ts:29-40.
ConsoleDestination(e) ==
  LET min == OrDefault(e.CONSOLE_MIN_LOG_LEVEL, "DEBUG")
  IN [threw |-> ~validateLogLevel(min),
      dest |-> [name |-> "Console",
                minLogLevel |-> min,
                active |-> IF e.CONSOLE_ENABLED = UndefinedSeq THEN TRUE
                           ELSE toLowerCase(trim(e.CONSOLE_ENABLED))
                                  = <<"t", "r", "u", "e">>]]

\* A destination that asks for the endpoint only.
BetterStackDestinationUrlOnly(e) ==
  LET min == OrDefault(e.BETTERSTACK_MIN_LOG_LEVEL, "INFO")
  IN [threw |-> ~validateLogLevel(min),
      dest |-> [name |-> "BetterStack",
                minLogLevel |-> min,
                active |-> e.BETTERSTACK_URL # Undefined]]

\* BetterStackDestination constructor.
BetterStackDestination(e) ==
  LET min == OrDefault(e.BETTERSTACK_MIN_LOG_LEVEL, "INFO")
  IN [threw |-> ~validateLogLevel(min),
      dest |-> [name |-> "BetterStack",
                minLogLevel |-> min,
                active |-> e.BETTERSTACK_URL # Undefined
                           /\ e.BETTERSTACK_TOKEN # Undefined]]

\* MicrosoftTeamsDestination constructor: the minimum level is taken as it
\* is, without validation.
MicrosoftTeamsDestination(e) ==
  [threw |-> FALSE,
   dest |-> [name |-> "Microsoft Teams",
             minLogLevel |-> OrDefault(e.TEAMS_MIN_LOG_LEVEL, "ERROR"),
             active |-> e.TEAMS_WEBHOOK_URL # Undefined]]

\* The destinations registered in the opposite order.
LoggerConstructorTeamsFirst(e) ==
  LET c == ConsoleDestination(e)
      b == BetterStackDestination(e)
      t == MicrosoftTeamsDestination(e)
  IN [threw |-> c.threw \/ b.threw \/ t.threw,
      destinations |-> <<t.dest, b.dest, c.dest>>]

\* new Logger(queue), logger.ts:27-34: the three destinations are built in
\* this order; a throwing constructor aborts the construction.
LoggerConstructor(e) ==
  LET c == ConsoleDestination(e)
      b == BetterStackDestination(e)
      t == MicrosoftTeamsDestination(e)
  IN [threw |-> c.threw \/ b.threw \/ t.threw,
      destinations |-> <<c.dest, b.dest, t.dest>>]


----------------------------------------------------------------------------
(* Tracked promises and promise jobs *)

\* A finally callback that closes over the handle created before its own.
JobOfPrevious(k, h, f) ==
  [k |-> k, h |-> IF k = "finally" /\ h > 1 THEN h - 1 ELSE h, f |-> f]

\* A reaction registered on a promise, and the job it becomes once the
\* promise settles: the destination's finally callback of handle h, the
\* per-element reaction of flush f's allSettled on handle h, or the
\* continuation of flush f after its await.
Job(k, h, f) == [k |-> k, h |-> h, f |-> f]

\* { name, promise: Promise.resolve(), isSettled: true }; io is what the
\* call did before returning it: nothing, or a console write.
SettledHandle(name, io) ==
  [name |-> name, promise |-> "fulfilled", isSettled |-> TRUE,
   reason |-> "-", reactions |-> <<>>, derived |-> "none", io |-> io]

\* A handle flagged when it is created, the fetch still pending.
TrackedFetchFlagged(name, id) ==
  [name |-> name, promise |-> "pending", isSettled |-> TRUE,
   reason |-> "-", reactions |-> <<Job("finally", id, 0)>>,
   derived |-> "pending", io |-> "fetch"]

\* The handle without the finally callback.
TrackedFetchNoFinally(name, id) ==
  [name |-> name, promise |-> "pending", isSettled |-> FALSE,
   reason |-> "-", reactions |-> <<>>, derived |-> "none", io |-> "fetch"]

\* { name, promise, isSettled: false } with promise.finally(() => isSettled
\* = true) registered on the pending fetch promise; id is the identity the
\* handle gets. The promise that finally() returns is kept by nobody.
TrackedFetch(name, id) ==
  [name |-> name, promise |-> "pending", isSettled |-> FALSE,
   reason |-> "-", reactions |-> <<Job("finally", id, 0)>>,
   derived |-> "pending", io |-> "fetch"]

\* A destination written against the interface that forgets the finally
\* callback: nothing ever sets isSettled.
TrackedForgetful(name) ==
  [name |-> name, promise |-> "pending", isSettled |-> FALSE,
   reason |-> "-", reactions |-> <<>>, derived |-> "none", io |-> "fetch"]

\* JSON.stringify throws a TypeError on a BigInt value.
StringifyThrows(properties) ==
  \E k \in DOMAIN properties : properties[k] = "bigint"

\* What a destination's log() does: it throws, or it returns a handle.
Threw == [threw |-> TRUE, handle |-> SettledHandle("-", "none")]

Returned(handle) == [threw |-> FALSE, handle |-> handle]

\* ConsoleDestination.log, Console/index.ts:51-89.
ConsoleLog(d, level, properties, id) ==
  LET can == canLogAtLevel(level, d.minLogLevel)
  IN IF can.threw THEN Threw
     ELSE IF ~can.value THEN Returned(SettledHandle(d.name, "none"))
     ELSE Returned(SettledHandle(d.name, "console"))

\* BetterStackDestination.log.
BetterStackLog(d, level, properties, id) ==
  LET can == canLogAtLevel(level, d.minLogLevel)
  IN IF can.threw THEN Threw
     ELSE IF ~can.value THEN Returned(SettledHandle(d.name, "none"))
     ELSE IF StringifyThrows(properties)
       THEN Threw
     ELSE Returned(TrackedFetch(d.name, id))

\* The earlier MicrosoftTeamsDestination.log: no level gate, every message
\* is posted.
MicrosoftTeamsLogUngated(d, level, properties, id) ==
  Returned(TrackedFetch(d.name, id))

\* MicrosoftTeamsDestination.log: every fact value is turned into a string
\* before the card is serialised.
MicrosoftTeamsLog(d, level, properties, id) ==
  LET can == canLogAtLevel(level, d.minLogLevel)
  IN IF can.threw THEN Threw
     ELSE IF ~can.value THEN Returned(SettledHandle(d.name, "none"))
     ELSE Returned(TrackedFetch(d.name, id))

\* A destination added to the constructor's list that returns a pending
\* handle and never sets isSettled.
ForgetfulLog(d, level, properties, id) ==
  Returned(TrackedForgetful(d.name))

DestinationLog(d, level, properties, id) ==
  CASE d.name = "Console" -> ConsoleLog(d, level, properties, id)
    [] d.name = "BetterStack" -> BetterStackLog(d, level, properties, id)
    [] d.name = "Microsoft Teams" -> MicrosoftTeamsLog(d, level, properties, id)
    [] OTHER -> ForgetfulLog(d, level, properties, id)

----------------------------------------------------------------------------
(* The dispatcher: Logger.log and cleanupQueue *)

\* _queue.splice(i, 2): the next handle goes with the settled one.
SpliceTwo(q, i) == SubSeq(q, 1, i - 1) \o SubSeq(q, i + 2, Len(q))

\* _queue.splice(i, 1)
Splice(q, i) == SubSeq(q, 1, i - 1) \o SubSeq(q, i + 1, Len(q))

RECURSIVE cleanupLoop(_, _, _)
\* for (i = length - 1; i >= 0; i--) if (queue[i]?.isSettled) splice(i, 1)
cleanupLoop(q, i, hs) ==
  IF i < 1 THEN q
  ELSE IF hs[q[i]].isSettled THEN cleanupLoop(Splice(q, i), i - 1, hs)
  ELSE cleanupLoop(q, i - 1, hs)

RECURSIVE cleanupLoopForward(_, _, _)
\* for (i = 0; i < length; i++) if (queue[i]?.isSettled) splice(i, 1)
cleanupLoopForward(q, i, hs) ==
  IF i > Len(q) THEN q
  ELSE IF hs[q[i]].isSettled THEN cleanupLoopForward(Splice(q, i), i + 1, hs)
  ELSE cleanupLoopForward(q, i + 1, hs)

\* The pass made from the front of the queue.
cleanupQueueForward(q, hs) == cleanupLoopForward(q, 1, hs)

\* No pass at all.
cleanupQueueNever(q, hs) == q

cleanupQueue(q, hs) == cleanupLoop(q, Len(q), hs)

\* A dispatcher that skips nothing.
SkippedNever(destination) == FALSE

\* if (!destination.active) return
Skipped(destination) == ~destination.active

RECURSIVE forEachDestinationSwallow(_, _, _, _, _)
RECURSIVE forEachDestinationKeepsGoing(_, _, _, _, _)
RECURSIVE forEachDestination(_, _, _, _, _)
\* A loop with a try/catch around each destination: the exception is
\* dropped and the next destination is invoked.
forEachDestinationSwallow(ds, i, level, properties, st) ==
  IF i > Len(ds) THEN st
  ELSE IF Skipped(ds[i])
    THEN forEachDestinationSwallow(ds, i + 1, level, properties, st)
  ELSE LET id == Len(st.handles) + 1
           out == DestinationLog(ds[i], level, properties, id)
           called == [st.calls EXCEPT ![ds[i].name] = @ + 1]
       IN forEachDestinationSwallow(ds, i + 1, level, properties,
            IF out.threw
              THEN [st EXCEPT !.calls = called]
              ELSE [st EXCEPT !.calls = called,
                              !.handles = Append(@, out.handle),
                              !.queue = Append(@, id)])

\* A loop that remembers the exception, invokes the remaining destinations
\* and throws at the end.
forEachDestinationKeepsGoing(ds, i, level, properties, st) ==
  IF i > Len(ds) THEN st
  ELSE IF Skipped(ds[i])
    THEN forEachDestinationKeepsGoing(ds, i + 1, level, properties, st)
  ELSE LET id == Len(st.handles) + 1
           out == DestinationLog(ds[i], level, properties, id)
           called == [st.calls EXCEPT ![ds[i].name] = @ + 1]
       IN forEachDestinationKeepsGoing(ds, i + 1, level, properties,
            IF out.threw
              THEN [st EXCEPT !.calls = called, !.threw = TRUE]
              ELSE [st EXCEPT !.calls = called,
                              !.handles = Append(@, out.handle),
                              !.queue = Append(@, id)])

\* this._destinations.forEach(...), logger.ts:184-190: an inactive
\* destination is skipped; an exception thrown by log() ends the loop with
\* what was pushed so far.
forEachDestination(ds, i, level, properties, st) ==
  IF i > Len(ds) THEN st
  ELSE IF Skipped(ds[i])
    THEN forEachDestination(ds, i + 1, level, properties, st)
  ELSE LET id == Len(st.handles) + 1
           out == DestinationLog(ds[i], level, properties, id)
           called == [st.calls EXCEPT ![ds[i].name] = @ + 1]
       IN IF out.threw
            THEN [st EXCEPT !.calls = called, !.threw = TRUE]
            ELSE forEachDestination(ds, i + 1, level, properties,
                   [st EXCEPT !.calls = called,
                              !.handles = Append(@, out.handle),
                              !.queue = Append(@, id)])

\* The level functions of the logger namespace and the level each passes.
LevelOf ==
  [fn \in {"debug", "info", "warn", "error", "errorException"} |->
     CASE fn = "debug" -> "DEBUG"
       [] fn = "info" -> "INFO"
       [] fn = "warn" -> "WARN"
       [] OTHER -> "ERROR"]

Templates ==
  { <<"h", "i">>,
    <<"{", "a", "}">>,
    <<"{", "a", "}", " ", "{", "@", "b", "}">>,
    <<"{", "}", "{", "@", "}">> }

ParamValues == {"string", "bigint"}

ParamLists == UNION {[1..n -> ParamValues] : n \in {0, 1}}

\* A check that only notices missing parameters.
ArityTooFew(tokens, params) == Len(params) < Len(tokens)

\* !Array.isArray(params) || params.length !== messageParameters.length
\* (params is a rest parameter: always an array).
ArityMismatch(tokens, params) == Len(params) # Len(tokens)

Arity(expected, got) ==
  IF got = expected THEN "equal" ELSE IF got < expected THEN "fewer" ELSE "more"

\* What the caller of the last step saw, when it was a log call: how the
\* parameter count compared with the placeholder count, and how it ended.
Last(op, arity, result) == [op |-> op, arity |-> arity, result |-> result]

Idle == Last("-", "-", "-")

\* No library function has been called directly.
NoProbe == [fn |-> "-"]

\* let _logConfig: LogConfig = {}
EmptyConfig == [k \in {} |-> <<>>]

\* let getContext = () => undefined
DefaultProvider == "() => undefined"

\* The provider functions a caller may install.
Providers == {"p", "q"}

\* A provider's result: undefined, or a LogConfig.
UndefinedContext == [kind |-> "undefined"]

Context(logConfig) == [kind |-> "config", value |-> logConfig]

\* The logical requests that share the logger.
Requests == {"A", "B"}

\* The fetches started so far: the handles created pending.
NumFetch(hs) == Cardinality({h \in 1..Len(hs) : hs[h].io = "fetch"})

\* A flush that has not resumed yet saw a dispatch while it waited.
MarkDispatch(fs) ==
  [i \in 1..Len(fs) |->
     IF fs[i].state \in {"waiting", "joined"}
       THEN [fs[i] EXCEPT !.dispatched = TRUE] ELSE fs[i]]

\* logger.debug/info/warn/error/errorException -> Logger.log, as one
\* synchronous step.
Log(fn, messageTemplate, params) ==
  /\ loaded
  /\ LET tokens == messageParameters(messageTemplate)
         arity == Arity(Len(tokens), Len(params))
     IN IF ArityMismatch(tokens, params)
          THEN /\ last' = Last("log", arity, "threw arity")
               /\ UNCHANGED <<env, loaded, destinations, handles, queue,
                              microtasks, flushes, calls, nDispatch, unhandled,
                              probe, config, getContext, store, requests, imports>>
          ELSE /\ nDispatch < MaxDispatch
               /\ LET properties ==
                        placeholderProperties(tokens, params, 1, EmptyProps)
                      st == forEachDestination(destinations, 1, LevelOf[fn],
                              properties,
                              [handles |-> handles, queue |-> queue,
                               calls |-> calls, threw |-> FALSE])
                  IN /\ NumFetch(st.handles) <= MaxFetch
                     /\ handles' = st.handles
                     /\ calls' = st.calls
                     /\ queue' = IF ~st.threw /\ Len(st.queue) > 0
                                   THEN cleanupQueue(st.queue, st.handles)
                                   ELSE st.queue
                     /\ last' = Last("log", arity,
                                     IF st.threw THEN "threw destination"
                                     ELSE "returned")
               /\ nDispatch' = nDispatch + 1
               /\ flushes' = MarkDispatch(flushes)
               /\ UNCHANGED <<env, loaded, destinations, microtasks, unhandled,
                              probe, config, getContext, store, requests, imports>>


----------------------------------------------------------------------------
(* logger.flush and the event loop *)

\* Promise.allSettled(_queue): the tracked objects themselves are handed
\* over, and Promise.resolve of a non-thenable is fulfilled at once.
AwaitedStateOfObject(hs, h) == "fulfilled"

\* The state of what flush hands to Promise.allSettled for handle h: the
\* handle's promise.
AwaitedState(hs, h) == hs[h].promise

RECURSIVE subscribe(_, _, _, _)
\* Promise.allSettled over the mapped queue: Promise.resolve(p).then(...)
\* for each element in order. A settled promise queues the reaction's job at
\* once; a pending one keeps the reaction until it settles.
subscribe(snapshot, i, f, st) ==
  IF i > Len(snapshot) THEN st
  ELSE LET h == snapshot[i]
       IN subscribe(snapshot, i + 1, f,
            IF AwaitedState(st.handles, h) # "pending"
              THEN [st EXCEPT !.microtasks = Append(@, Job("elem", h, f))]
              ELSE [st EXCEPT !.handles[h].reactions =
                                 Append(@, Job("elem", h, f))])

\* flush(), up to its await.
Flush ==
  /\ loaded
  /\ Len(flushes) < MaxFlush
  /\ LET f == Len(flushes) + 1
         st == subscribe(queue, 1, f,
                 [handles |-> handles, microtasks |-> microtasks])
     IN /\ handles' = st.handles
        /\ microtasks' = IF queue = <<>>
                           THEN Append(st.microtasks, Job("resume", 0, f))
                           ELSE st.microtasks
        /\ flushes' = Append(flushes,
                        [state |-> IF queue = <<>> THEN "joined" ELSE "waiting",
                         snapshot |-> queue,
                         remaining |-> Len(queue),
                         dispatched |-> FALSE,
                         left |-> 0])
        /\ last' = Idle
  /\ UNCHANGED <<env, loaded, destinations, queue, calls, nDispatch, unhandled,
                 probe, config, getContext, store, requests, imports>>

\* What the fetch promise rejects with: a TypeError when the request fails,
\* a TimeoutError when the abort signal fires.
RejectionReason(cause) ==
  CASE cause = "fail" -> "TypeError"
    [] cause = "timeout" -> "TimeoutError"
    [] OTHER -> "-"

\* The fetch behind handle h ends: with a response, with a network error,
\* or aborted by AbortSignal.timeout(5000). It ends in a macrotask, so no
\* promise job is waiting. The promise's reactions become jobs in the order
\* they were registered.
Settle(h, cause) ==
  /\ loaded
  /\ h \in 1..Len(handles)
  /\ handles[h].promise = "pending"
  /\ microtasks = <<>>
  /\ handles' = [handles EXCEPT
                   ![h].promise = IF cause = "ok" THEN "fulfilled" ELSE "rejected",
                   ![h].reason = RejectionReason(cause),
                   ![h].reactions = <<>>]
  /\ microtasks' = handles[h].reactions
  /\ unhandled' = IF cause # "ok" /\ handles[h].reactions = <<>>
                    THEN unhandled \cup {[h |-> h, p |-> "fetch"]}
                    ELSE unhandled
  /\ last' = Idle
  /\ UNCHANGED <<env, loaded, destinations, queue, flushes, calls, nDispatch,
                 probe, config, getContext, store, requests, imports>>

\* A join that counts only fulfilled elements.
allFulfilledElement(fr, outcome) ==
  IF outcome = "rejected" THEN fr
  ELSE [fr EXCEPT !.remaining = @ - 1,
                  !.state = IF fr.remaining = 1 THEN "joined" ELSE @]

\* Promise.race's reactions: the first element that is done ends the wait.
raceElement(fr, outcome) ==
  [fr EXCEPT !.remaining = @ - 1, !.state = "joined"]

\* Promise.all's reactions: the first rejection rejects the join.
promiseAllElement(fr, outcome) ==
  IF fr.state = "rejected" THEN fr
  ELSE IF outcome = "rejected" THEN [fr EXCEPT !.state = "rejected"]
  ELSE [fr EXCEPT !.remaining = @ - 1,
                  !.state = IF fr.remaining = 1 THEN "joined" ELSE @]

\* Promise.allSettled's reaction for one element: fulfilment and rejection
\* both count the element as done; the join resolves with the last one.
allSettledElement(fr, outcome) ==
  [fr EXCEPT !.remaining = @ - 1,
             !.state = IF fr.remaining = 1 THEN "joined" ELSE @]

\* _queue.length = 0
flushTruncate(q, hs) == <<>>

\* A splice that puts every handle back.
flushKeepAll(q, hs) == q

\* _queue.splice(0, _queue.length, ..._queue.filter(t => !t.isSettled))
flushSplice(q, hs) == SelectSeq(q, LAMBDA h : ~hs[h].isSettled)

\* The engine runs the oldest promise job.
RunMicrotask ==
  /\ microtasks # <<>>
  /\ LET job == Head(microtasks)
         rest == Tail(microtasks)
     IN /\ last' = Idle
        /\ CASE job.k = "finally" ->
                  \* trackedPromise.isSettled = true; the promise finally()
                  \* returned then settles like the fetch promise.
                  /\ handles' = [handles EXCEPT
                                   ![job.h].isSettled = TRUE,
                                   ![job.h].derived = handles[job.h].promise]
                  /\ unhandled' = IF handles[job.h].promise = "rejected"
                                    THEN unhandled \cup {[h |-> job.h, p |-> "finally"]}
                                    ELSE unhandled
                  /\ microtasks' = rest
                  /\ UNCHANGED <<queue, flushes>>
             [] job.k = "elem" ->
                  LET fr == allSettledElement(flushes[job.f],
                                              AwaitedState(handles, job.h))
                  IN /\ flushes' = [flushes EXCEPT ![job.f] = fr]
                     /\ microtasks' =
                          IF fr.state = "joined"
                            THEN Append(rest, Job("resume", 0, job.f))
                            ELSE rest
                     /\ UNCHANGED <<handles, queue, unhandled>>
             [] OTHER ->
                  \* flush() after its await: the splice, then it returns.
                  /\ queue' = flushSplice(queue, handles)
                  /\ flushes' = [flushes EXCEPT
                                   ![job.f].state = "resolved",
                                   ![job.f].left = Len(flushSplice(queue, handles))]
                  /\ microtasks' = rest
                  /\ UNCHANGED <<handles, unhandled>>
  /\ UNCHANGED <<env, loaded, destinations, calls, nDispatch, probe, config, getContext, store, requests, imports>>

----------------------------------------------------------------------------
(* Specifications *)

EnvSpace ==
  [CONSOLE_ENABLED : {UndefinedSeq},
   CONSOLE_MIN_LOG_LEVEL : {Undefined, "CRAZY"},
   BETTERSTACK_URL : {Undefined, "https://in.logs.betterstack.com"},
   BETTERSTACK_TOKEN : {"token"},
   BETTERSTACK_MIN_LOG_LEVEL : {Undefined, "CRAZY"},
   TEAMS_WEBHOOK_URL : {Undefined, "https://teams.example/webhook"},
   TEAMS_MIN_LOG_LEVEL : {Undefined, "CRAZY"}]

DestinationNames == {"Console", "BetterStack", "Microsoft Teams", "Custom"}

\* The module body of index.ts: const _queue = []; const _logger = new
\* Logger(_queue), with `extra` destinations added after the built-in ones.
Boot(e, extra) ==
  LET ctor == LoggerConstructor(e)
  IN /\ env = e
     /\ loaded = ~ctor.threw
     /\ destinations = IF ctor.threw THEN <<>> ELSE ctor.destinations \o extra
     /\ handles = <<>>
     /\ queue = <<>>
     /\ microtasks = <<>>
     /\ flushes = <<>>
     /\ calls = [n \in DestinationNames |-> 0]
     /\ nDispatch = 0
     /\ unhandled = {}
     /\ last = Idle
     /\ probe = NoProbe
     /\ config = EmptyConfig
     /\ getContext = DefaultProvider
     /\ store = [p \in Providers |-> UndefinedContext]
     /\ requests = [r \in Requests |-> "idle"]
     /\ imports = {}

Init == \E e \in EnvSpace : Boot(e, <<>>)

Next ==
  \/ \E fn \in DOMAIN LevelOf, t \in Templates, ps \in ParamLists : Log(fn, t, ps)
  \/ Flush
  \/ \E h \in 1..Len(handles), cause \in {"ok", "fail", "timeout"} : Settle(h, cause)
  \/ RunMicrotask

Spec == Init /\ [][Next]_vars


\* A destination registered after the built-in ones whose log() returns a
\* pending handle and never sets isSettled.
Custom == [name |-> "Custom", minLogLevel |-> "DEBUG", active |-> TRUE]

InitCustom ==
  \E e \in EnvSpace :
    /\ e.BETTERSTACK_MIN_LOG_LEVEL = Undefined
    /\ e.TEAMS_MIN_LOG_LEVEL = Undefined
    /\ e.TEAMS_WEBHOOK_URL = Undefined
    /\ Boot(e, <<Custom>>)

SpecCustom == InitCustom /\ [][Next]_vars

\* Every handle the bounds allow.
HandleIds == 1..(4 * MaxDispatch)

\* The engine runs every queued promise job, and every fetch ends: with a
\* response, with an error, or by its five-second abort signal.
Fairness ==
  /\ WF_vars(RunMicrotask)
  /\ \A h \in HandleIds :
       WF_vars(\E cause \in {"ok", "fail", "timeout"} : Settle(h, cause))

\* Both network destinations configured, every minimum level that lets the
\* construction succeed.
InitNetwork ==
  \E e \in EnvSpace :
    /\ e.BETTERSTACK_URL # Undefined
    /\ e.TEAMS_WEBHOOK_URL # Undefined
    /\ ~LoggerConstructor(e).threw
    /\ Boot(e, <<>>)

FairSpec == InitNetwork /\ [][Next]_vars /\ Fairness

----------------------------------------------------------------------------
(* Direct calls of the library's functions, one call per step: the          *)
(* arguments and the result are kept in probe.                              *)

Rest == <<env, loaded, destinations, handles, queue, microtasks, flushes,
          calls, nDispatch, unhandled, last, config, getContext, store, requests, imports>>

\* The strings handed over as a level: the eight spellings of the mapper,
\* the two further members of the LogLevel type, unknown and wrongly cased
\* names, names of Object.prototype members, and the empty string.
LevelInputs ==
  {"DEBUG", "debug", "INFO", "info", "WARN", "warn", "ERROR", "error",
   "CRITICAL", "FATAL", "CRAZY", "Warn", "toString", "constructor", ""}

\* The levels the level functions pass to Logger.log.
MessageLevels == {"DEBUG", "INFO", "WARN", "ERROR"}

ProbeCanLogAtLevel(messageLogLevel, minimumLogLevel) ==
  /\ probe' = [fn |-> "canLogAtLevel",
               message |-> messageLogLevel,
               minimum |-> minimumLogLevel,
               out |-> canLogAtLevel(messageLogLevel, minimumLogLevel)]
  /\ UNCHANGED Rest

\* The comparison as the library with critical/fatal had it: without checks
\* (lib/log-level.ts) or with them, over the uppercase mapper.
ProbeCanLogAtLevelLegacy(variant, messageLogLevel, minimumLogLevel) ==
  /\ probe' = [fn |-> "canLogAtLevel/legacy",
               variant |-> variant,
               message |-> messageLogLevel,
               minimum |-> minimumLogLevel,
               out |-> IF variant = "unchecked"
                         THEN canLogAtLevelUnchecked(messageLogLevel, minimumLogLevel)
                         ELSE canLogAtLevelLegacy(messageLogLevel, minimumLogLevel)]
  /\ UNCHANGED Rest

ProbeValidateLogLevel(logLevel) ==
  /\ probe' = [fn |-> "validateLogLevel",
               level |-> logLevel,
               out |-> validateLogLevel(logLevel)]
  /\ UNCHANGED Rest

\* An environment in which both network destinations are configured and
\* every minimum-level variable holds `min`.
EnvWithMinimum(min) ==
  [CONSOLE_ENABLED |-> UndefinedSeq,
   CONSOLE_MIN_LOG_LEVEL |-> min,
   BETTERSTACK_URL |-> "https://in.logs.betterstack.com",
   BETTERSTACK_TOKEN |-> "token",
   BETTERSTACK_MIN_LOG_LEVEL |-> min,
   TEAMS_WEBHOOK_URL |-> "https://teams.example/webhook",
   TEAMS_MIN_LOG_LEVEL |-> min]

\* new ConsoleDestination / BetterStackDestination / MicrosoftTeamsDestination
\* in that environment.
Constructed(name, min) ==
  CASE name = "Console" -> ConsoleDestination(EnvWithMinimum(min))
    [] name = "BetterStack" -> BetterStackDestination(EnvWithMinimum(min))
    [] OTHER -> MicrosoftTeamsDestination(EnvWithMinimum(min))

BuiltIn == {"Console", "BetterStack", "Microsoft Teams"}

ProbeConstructor(name, min) ==
  /\ probe' = [fn |-> "new",
               name |-> name,
               minimum |-> min,
               out |-> Constructed(name, min)]
  /\ UNCHANGED Rest

\* The properties of a message without parameters, and of one whose only
\* parameter is a bigint.
ProbeProperties == {EmptyProps, [k \in {<<"a">>} |-> "bigint"]}

\* destination.log(messageObject, level) on a destination that was
\* constructed with minimum level `min`.
ProbeDestinationLog(name, min, level, properties) ==
  LET c == Constructed(name, min)
  IN /\ ~c.threw
     /\ probe' = [fn |-> "destination.log",
                  name |-> name,
                  minimum |-> c.dest.minLogLevel,
                  level |-> level,
                  properties |-> properties,
                  out |-> DestinationLog(c.dest, level, properties, 1)]
     /\ UNCHANGED Rest

\* Templates with no, one, two different and two equal placeholders.
FormatTemplates ==
  { <<"h", "i">>,
    <<"{", "a", "}">>,
    <<"{", "a", "}", " ", "{", "@", "b", "}">>,
    <<"{", "a", "}", "-", "{", "a", "}">> }

\* Parameter values: plain texts, a text that reads as a placeholder, texts
\* with a dollar sign, null and an object.
FormatValues ==
  { StringValue(<<"x">>), StringValue(<<"y">>),
    StringValue(<<"{", "@", "b", "}">>), StringValue(<<"{", "a", "}">>),
    StringValue(<<"$", "&">>), StringValue(<<"$", "1">>),
    NullValue, EmptyObject }

FormatParamLists == UNION {[1..n -> FormatValues] : n \in 0..2}

ProbeFormat(messageTemplate, params) ==
  /\ probe' = [fn |-> "format",
               messageTemplate |-> messageTemplate,
               params |-> params,
               out |-> format(messageTemplate, params)]
  /\ UNCHANGED Rest

\* What an environment variable may hold: nothing, the empty string, a value.
SettingValues == {Undefined, "", "set"}

EnabledValues ==
  { UndefinedSeq,
    <<"t", "r", "u", "e">>,
    <<"f", "a", "l", "s", "e">>,
    <<" ", "T", "R", "U", "E", "\n">>,
    <<"\t", "T", "r", "u", "e">>,
    <<"t", "r", " ", "u", "e">>,
    <<"t", "r", "u", "e", "!">>,
    <<"1">>,
    <<>> }

EnvWithSettings(enabled, url, token, webhook) ==
  [CONSOLE_ENABLED |-> enabled,
   CONSOLE_MIN_LOG_LEVEL |-> Undefined,
   BETTERSTACK_URL |-> url,
   BETTERSTACK_TOKEN |-> token,
   BETTERSTACK_MIN_LOG_LEVEL |-> Undefined,
   TEAMS_WEBHOOK_URL |-> webhook,
   TEAMS_MIN_LOG_LEVEL |-> Undefined]

\* new BetterStackDestination and new MicrosoftTeamsDestination with the
\* three settings as given.
ProbeNetworkActive(url, token, webhook) ==
  LET e == EnvWithSettings(UndefinedSeq, url, token, webhook)
  IN /\ probe' = [fn |-> "network",
                  url |-> url, token |-> token, webhook |-> webhook,
                  betterStack |-> BetterStackDestination(e).dest.active,
                  teams |-> MicrosoftTeamsDestination(e).dest.active]
     /\ UNCHANGED Rest

\* new ConsoleDestination with CONSOLE_ENABLED as given.
ProbeConsoleActive(enabled) ==
  LET e == EnvWithSettings(enabled, Undefined, Undefined, Undefined)
  IN /\ probe' = [fn |-> "console",
                  enabled |-> enabled,
                  active |-> ConsoleDestination(e).dest.active]
     /\ UNCHANGED Rest

\* The longest queue handed to cleanupQueue directly.
MaxQueue == 4

\* Tracked promises as cleanupQueue sees them: the flag only.
FlagLists == UNION {[1..n -> [isSettled : BOOLEAN]] : n \in 0..MaxQueue}

\* cleanupQueue() on a queue holding the handles 1..n in that order.
ProbeCleanupQueue(hs) ==
  /\ probe' = [fn |-> "cleanupQueue",
               queue |-> [i \in 1..Len(hs) |-> i],
               handles |-> hs,
               out |-> cleanupQueue([i \in 1..Len(hs) |-> i], hs)]
  /\ UNCHANGED Rest

\* An Error object: it owns a stack.
ErrorValue == [kind |-> "error", text |-> <<>>]

\* The i-th actual argument of a call, undefined when the call has fewer.
Argument(args, i) == IF i <= Len(args) THEN args[i] ELSE UndefinedValue

\* ...params of error(arg1, arg2, ...params): the arguments after the second.
RestParameters(args) == SubSeq(args, 3, Len(args))

\* _logger.log(messageTemplate, 'ERROR', exception, ...params) as the caller
\* of error sees it: the arity error or the rendered message, with the
\* parameters and the exception the formatter was given.
loggerLog(messageTemplate, exception, params) ==
  [threw |-> format(messageTemplate, params).threw,
   message |-> format(messageTemplate, params).message,
   exception |-> exception,
   params |-> params]

\* error(arg1, arg2, ...params), the implementation of the two overloads.
errorOverload(args) ==
  IF Argument(args, 1).kind = "string"
    THEN loggerLog(args[1].text, UndefinedValue, RestParameters(args))
  ELSE IF Argument(args, 2).kind = "string"
    THEN loggerLog(args[2].text, args[1], RestParameters(args))
  ELSE [threw |-> TRUE, message |-> <<>>, exception |-> UndefinedValue,
        params |-> <<>>]

OverloadValues == {StringValue(<<"x">>), StringValue(<<"y">>), NullValue}

OverloadParamLists == UNION {[1..n -> OverloadValues] : n \in 0..2}

\* The calls of error: template first, exception first, and an exception
\* with no template.
OverloadCalls ==
  {<<StringValue(t)>> \o ps : t \in FormatTemplates, ps \in OverloadParamLists}
    \cup {<<ErrorValue, StringValue(t)>> \o ps :
            t \in FormatTemplates, ps \in OverloadParamLists}
    \cup {<<ErrorValue>>, <<ErrorValue, NullValue>>}

ProbeError(args) ==
  /\ probe' = [fn |-> "error", args |-> args, out |-> errorOverload(args)]
  /\ UNCHANGED Rest

InitProbe ==
  \E e \in EnvSpace :
    /\ e.BETTERSTACK_URL = Undefined
    /\ e.TEAMS_WEBHOOK_URL = Undefined
    /\ ~LoggerConstructor(e).threw
    /\ e.TEAMS_MIN_LOG_LEVEL = Undefined
    /\ Boot(e, <<>>)

NextProbe ==
  \/ \E m, n \in LevelInputs : ProbeCanLogAtLevel(m, n)
  \/ \E v \in {"unchecked", "checked"}, m, n \in LevelInputs :
       ProbeCanLogAtLevelLegacy(v, m, n)
  \/ \E l \in LevelInputs : ProbeValidateLogLevel(l)
  \/ \E d \in BuiltIn, n \in LevelInputs \cup {Undefined} : ProbeConstructor(d, n)
  \/ \E d \in BuiltIn, n \in LevelInputs \cup {Undefined}, l \in MessageLevels,
        ps \in ProbeProperties : ProbeDestinationLog(d, n, l, ps)
  \/ \E t \in FormatTemplates, ps \in FormatParamLists : ProbeFormat(t, ps)
  \/ \E args \in OverloadCalls : ProbeError(args)
  \/ \E url, token, webhook \in SettingValues :
       ProbeNetworkActive(url, token, webhook)
  \/ \E enabled \in EnabledValues : ProbeConsoleActive(enabled)
  \/ \E hs \in FlagLists : ProbeCleanupQueue(hs)

SpecProbe == InitProbe /\ [][NextProbe]_vars

----------------------------------------------------------------------------
(* The log configuration: logConfig(partial) calls interleaved with level   *)
(* function calls, which hand the configuration of the moment to            *)
(* Logger.log.                                                              *)

ConfigValues ==
  [k \in {contextId, prefix, suffix} |->
     CASE k = contextId -> {UndefinedSeq, <<"c">>}
       [] k = prefix -> {<<>>, <<"{", "a", "}">>}
       [] OTHER -> {UndefinedSeq, <<"s">>}]

\* The partial configurations a caller may pass: any subset of the keys.
Partials ==
  UNION {{f \in [D -> UNION {ConfigValues[k] : k \in D}] :
            \A k \in D : f[k] \in ConfigValues[k]}
         : D \in SUBSET {contextId, prefix, suffix}}

LogTemplates ==
  { <<"h">>,
    <<"{", "a", "}">>,
    <<"{", "a", "}", "{", "@", "a", "}">>,
    <<"{", "b", "}", "{", "a", "}">> }

LogValues == {StringValue(<<"x">>), NullValue, UndefinedValue}

\* No parameter, one of any kind, or two that are a text or null.
LogParamLists ==
  {<<>>} \cup [1..1 -> LogValues]
         \cup [1..2 -> {StringValue(<<"x">>), NullValue}]

\* logConfig(partial), index.ts: _logConfig = { ..._logConfig, ...logConfig }
LogConfig(partial) ==
  /\ config' = spread(config, partial)
  /\ last' = [op |-> "logConfig", arity |-> "-", result |-> "returned",
              partial |-> partial]
  /\ UNCHANGED <<env, loaded, destinations, handles, queue, microtasks,
                 flushes, calls, nDispatch, unhandled, probe, getContext, store, requests, imports>>

\* A level function: _logger.log(_logConfig, messageTemplate, level,
\* undefined, ...params), up to the messageObject.
ProbeLog(messageTemplate, params) ==
  /\ probe' = [fn |-> "log",
               messageTemplate |-> messageTemplate,
               params |-> params,
               out |-> messageObject(_logger, config, messageTemplate, params)]
  /\ UNCHANGED Rest

NextConfig ==
  \/ \E partial \in Partials : LogConfig(partial)
  \/ \E t \in LogTemplates, ps \in LogParamLists : ProbeLog(t, ps)

SpecConfig == InitProbe /\ [][NextConfig]_vars

----------------------------------------------------------------------------
(* The message object of any logger, configuration, template and           *)
(* parameters (SpecEnrich).                                                *)

\* The package.json read at construction: without and with name and version.
MinimalPackages ==
  {[name |-> UndefinedSeq, version |-> UndefinedSeq],
   [name |-> <<"p", "k", "g">>, version |-> <<"1">>]}

\* The loggers of a process with NODE_ENV=test: APP_NAME set or not, the
\* package read or not, the caller found in the stack or not.
Loggers ==
  [runtimeInfo : {getRuntimeInfo(a, n, pkg) :
                    a \in {UndefinedSeq, <<"a", "p", "p">>},
                    n \in {<<"t", "e", "s", "t">>},
                    pkg \in MinimalPackages},
   callingInfo : {UndefinedCallingInfo,
                  CallingInfo(<<"f">>, <<"a", ".", "j", "s">>,
                              <<"/", "a", ".", "j", "s">>, <<"7">>, <<"3">>)}]

\* The empty configuration and one with its three fields set.
EnrichConfigs ==
  {EmptyConfig,
   [k \in {contextId, prefix, suffix} |->
      CASE k = contextId -> <<"c">> [] k = prefix -> <<"p">> [] OTHER -> <<"s">>]}

\* The names createPropertiesObject may write.
PropertyNames ==
  UNION {DOMAIN createPropertiesObject(this, logConfig) :
           this \in Loggers, logConfig \in EnrichConfigs}

\* A placeholder for each such name, one name twice, and a name of the
\* caller's own.
EnrichTemplates ==
  {<<"{">> \o K \o <<"}">> : K \in PropertyNames}
    \cup {<<"{">> \o K \o <<"}", "{", "@">> \o K \o <<"}">> :
            K \in PropertyNames \cap {<<"A", "p", "p", "N", "a", "m", "e">>}}
    \cup {<<"{", "a", "}">>}

EnrichParamLists ==
  {<<StringValue(<<"x">>)>>, <<NullValue>>,
   <<StringValue(<<"x">>), StringValue(<<"y">>)>>}

\* this.log(logConfig, messageTemplate, level, undefined, ...params), up to
\* the messageObject.
ProbeMessageObject(this, logConfig, messageTemplate, params) ==
  /\ probe' = [fn |-> "messageObject",
               this |-> this,
               logConfig |-> logConfig,
               messageTemplate |-> messageTemplate,
               params |-> params,
               out |-> messageObject(this, logConfig, messageTemplate, params)]
  /\ UNCHANGED Rest

NextEnrich ==
  \E this \in Loggers, logConfig \in EnrichConfigs,
     t \in EnrichTemplates, ps \in EnrichParamLists :
    ProbeMessageObject(this, logConfig, t, ps)

SpecEnrich == InitProbe /\ [][NextEnrich]_vars

----------------------------------------------------------------------------
(* The Logger that registers its destinations through dynamic imports      *)
(* (SpecDynamic): a destination is registered when the import of its       *)
(* module resolves. imports holds the folders whose import has not         *)
(* resolved yet.                                                           *)

\* readdirSync('../destinations'): the folders, in directory order.
DestinationFolders == <<"BetterStack", "Console", "Microsoft Teams">>

\* new module.default(pkg) of the folder's module.
DestinationClass(name, e) ==
  CASE name = "Console" -> ConsoleDestination(e)
    [] name = "BetterStack" -> BetterStackDestination(e)
    [] OTHER -> MicrosoftTeamsDestination(e)

\* A registration that keeps the destinations in directory order.
pushInFolderOrder(ds, destinationInstance) ==
  LET all == Range(ds) \cup {destinationInstance}
      names == SelectSeq(DestinationFolders,
                         LAMBDA n : \E d \in all : d.name = n)
  IN [i \in 1..Len(names) |-> CHOOSE d \in all : d.name = names[i]]

\* this._destinations.push(destinationInstance)
push(ds, destinationInstance) == Append(ds, destinationInstance)

\* new Logger(queue): initialize() has been called and nothing has been
\* imported yet. Both network destinations are configured and every
\* minimum level is the default, so no constructor throws.
InitDynamic ==
  \E e \in EnvSpace :
    /\ e.BETTERSTACK_URL # Undefined
    /\ e.TEAMS_WEBHOOK_URL # Undefined
    /\ e.CONSOLE_MIN_LOG_LEVEL = Undefined
    /\ e.BETTERSTACK_MIN_LOG_LEVEL = Undefined
    /\ e.TEAMS_MIN_LOG_LEVEL = Undefined
    /\ env = e
    /\ loaded = TRUE
    /\ destinations = <<>>
    /\ imports = Range(DestinationFolders)
    /\ handles = <<>>
    /\ queue = <<>>
    /\ microtasks = <<>>
    /\ flushes = <<>>
    /\ calls = [n \in DestinationNames |-> 0]
    /\ nDispatch = 0
    /\ unhandled = {}
    /\ last = Idle
    /\ probe = NoProbe
    /\ config = EmptyConfig
    /\ getContext = DefaultProvider
    /\ store = [p \in Providers |-> UndefinedContext]
    /\ requests = [r \in Requests |-> "idle"]

\* import(...).then((module) => { ... }): the import of a folder's module
\* resolves, the destination is built and registered.
ImportResolved(name) ==
  /\ name \in imports
  /\ imports' = imports \ {name}
  /\ destinations' = push(destinations, DestinationClass(name, env).dest)
  /\ UNCHANGED <<env, loaded, handles, queue, microtasks, flushes, calls, nDispatch, unhandled, last, probe, config, getContext, store, requests>>

NextDynamic ==
  \/ \E name \in Range(DestinationFolders) : ImportResolved(name)
  \/ \E fn \in {"debug", "error"}, t \in {<<"h", "i">>, <<"{", "a", "}">>} :
       Log(fn, t, <<>>)
  \/ \E h \in 1..Len(handles), cause \in {"ok", "fail", "timeout"} : Settle(h, cause)
  \/ RunMicrotask

SpecDynamic == InitDynamic /\ [][NextDynamic]_vars

----------------------------------------------------------------------------
(* Logical requests that interleave: each calls logConfig with its own     *)
(* contextId, suspends (an await), and logs when it runs again.            *)

\* A configuration kept per request.
RequestScopedLogConfig(logConfig, request) ==
  spread(logConfig, [k \in {contextId} |-> <<request>>])

\* The configuration a level function passes on: the module's _logConfig,
\* whoever calls.
CurrentLogConfig(logConfig, request) == logConfig

\* logger.logConfig({ contextId }) by a request, which then suspends.
RequestConfigures(request) ==
  /\ requests[request] = "idle"
  /\ requests' = [requests EXCEPT ![request] = "suspended"]
  /\ config' = spread(config, [k \in {contextId} |-> <<request>>])
  /\ last' = [op |-> "logConfig", arity |-> "-", result |-> "returned",
              partial |-> [k \in {contextId} |-> <<request>>]]
  /\ UNCHANGED <<env, loaded, destinations, handles, queue, microtasks,
                 flushes, calls, nDispatch, unhandled, probe, getContext,
                 store, imports>>

\* The request runs again and logs: logger.debug(messageTemplate, ...params).
RequestLogs(request, messageTemplate, params) ==
  /\ requests[request] = "suspended"
  /\ requests' = [requests EXCEPT ![request] = "logged"]
  /\ probe' = [fn |-> "log",
               request |-> request,
               messageTemplate |-> messageTemplate,
               params |-> params,
               out |-> messageObject(_logger, CurrentLogConfig(config, request),
                                     messageTemplate, params)]
  /\ UNCHANGED <<env, loaded, destinations, handles, queue, microtasks,
                 flushes, calls, nDispatch, unhandled, last, config,
                 getContext, store, imports>>

\* The request is over; the next one with the same name may start.
RequestEnds(request) ==
  /\ requests[request] = "logged"
  /\ requests' = [requests EXCEPT ![request] = "idle"]
  /\ UNCHANGED <<env, loaded, destinations, handles, queue, microtasks,
                 flushes, calls, nDispatch, unhandled, last, probe, config,
                 getContext, store, imports>>

RequestParamLists == {<<>>} \cup [1..1 -> LogValues]

NextRequests ==
  \/ \E r \in Requests : RequestConfigures(r)
  \/ \E r \in Requests, t \in LogTemplates, ps \in RequestParamLists :
       RequestLogs(r, t, ps)
  \/ \E r \in Requests : RequestEnds(r)

SpecRequests == InitProbe /\ [][NextRequests]_vars

----------------------------------------------------------------------------
(* The internal context hook: setInternalContextProvider and               *)
(* getInternalContext, with the providers' own state changing in between.   *)

\* A provider once installed is kept.
setInternalContextProviderOnce(current, provider) ==
  IF current = DefaultProvider THEN provider ELSE current

\* getContext = provider
setInternalContextProvider(current, provider) == provider

\* return getContext(): the provider is called now.
getInternalContext(provider, st) ==
  IF provider = DefaultProvider THEN UndefinedContext ELSE st[provider]

ContextValues ==
  { UndefinedContext,
    Context([k \in {contextId} |-> <<"A">>]),
    Context([k \in {contextId} |-> <<"B">>]) }

SetInternalContextProvider(provider) ==
  /\ getContext' = setInternalContextProvider(getContext, provider)
  /\ last' = [op |-> "setInternalContextProvider", arity |-> "-",
              result |-> "returned", provider |-> provider,
              then |-> store[provider]]
  /\ UNCHANGED <<env, loaded, destinations, handles, queue, microtasks,
                 flushes, calls, nDispatch, unhandled, probe, config, store,
                 requests, imports>>

\* What a provider reads (an async-local store, a variable of the caller)
\* changes.
StoreChanges(provider, value) ==
  /\ store' = [store EXCEPT ![provider] = value]
  /\ UNCHANGED <<env, loaded, destinations, handles, queue, microtasks,
                 flushes, calls, nDispatch, unhandled, last, probe, config,
                 getContext, requests, imports>>

ProbeGetInternalContext ==
  /\ probe' = [fn |-> "getInternalContext",
               out |-> getInternalContext(getContext, store)]
  /\ UNCHANGED Rest

NextContext ==
  \/ \E p \in Providers : SetInternalContextProvider(p)
  \/ \E p \in Providers, v \in ContextValues : StoreChanges(p, v)
  \/ ProbeGetInternalContext

SpecContext == InitProbe /\ [][NextContext]_vars

----------------------------------------------------------------------------
(* Properties *)

FlushIds == 1..Len(flushes)

Snapshot(f) == Range(flushes[f].snapshot)

\* C1: a level-function call whose parameter count differs from the
\* template's placeholder count (fewer or more) throws before any
\* destination's log is invoked and before any handle is created or pushed:
\* the queue, the handles and the destinations' call counts are as before.
C1_ArityErrorAbortsCall ==
  [][(last'.op = "log" /\ last'.arity # "equal")
       => (/\ last'.result = "threw arity"
           /\ queue' = queue
           /\ handles' = handles
           /\ calls' = calls)]_vars

C1_Witness ==
  /\ last.op = "log"
  /\ last.arity = "more"
  /\ last.result = "threw arity"
  /\ queue # <<>>

\* C2: a flush that has resolved has no delivery of its snapshot (the
\* handles in the queue when it was called) still in flight.
C2_FlushWaitsForSnapshot ==
  \A f \in FlushIds :
    flushes[f].state = "resolved"
      => \A h \in Snapshot(f) : handles[h].promise # "pending"

C2_Witness ==
  \E f \in FlushIds :
    /\ flushes[f].state = "resolved"
    /\ \E h, g \in Snapshot(f) :
         /\ h # g
         /\ handles[h].io = "fetch" /\ handles[h].promise = "rejected"
         /\ handles[g].io = "fetch" /\ handles[g].promise = "fulfilled"

\* C3: every flush that is called eventually resolves, whatever the
\* deliveries do (fulfil, reject, abort on the timeout) and in whatever
\* order they end.
C3_FlushEventuallyResolves ==
  \A f \in 1..MaxFlush :
    (Len(flushes) >= f) ~> (Len(flushes) >= f /\ flushes[f].state = "resolved")

C3_Witness ==
  \E f \in FlushIds :
    /\ flushes[f].state = "resolved"
    /\ Cardinality(Snapshot(f)) >= 2
    /\ \A h \in Snapshot(f) : handles[h].promise = "rejected"
    /\ \E h \in Snapshot(f) : handles[h].reason = "TimeoutError"

\* C4: the promise flush returns never rejects.
C4_FlushNeverRejects ==
  \A f \in FlushIds : flushes[f].state # "rejected"

C4_Witness ==
  \E f \in FlushIds :
    /\ flushes[f].state = "resolved"
    /\ \E h \in Snapshot(f) : handles[h].reason = "TypeError"

\* C5: every handle a built-in destination returns eventually has
\* isSettled = TRUE, however its delivery ends.
C5_HandleEventuallySettled ==
  \A h \in HandleIds :
    (Len(handles) >= h) ~> (Len(handles) >= h /\ handles[h].isSettled)

C5_Witness ==
  \E h \in 1..Len(handles) :
    /\ handles[h].reason = "TimeoutError"
    /\ handles[h].isSettled

\* C6 (as claimed): a flush whose snapshot holds a handle whose isSettled is
\* never set does not resolve.
C6_FlushHangsOnUnflaggedHandle ==
  \A f \in FlushIds :
    (\E h \in Snapshot(f) : handles[h].name = "Custom")
      => flushes[f].state # "resolved"

\* C7: a flush that completes with no dispatch during its wait leaves the
\* queue with exactly 0 handles.
C7_FlushEmptiesQueue ==
  \A f \in FlushIds :
    (flushes[f].state = "resolved" /\ ~flushes[f].dispatched)
      => flushes[f].left = 0

C7_Witness ==
  \E f \in FlushIds :
    /\ flushes[f].state = "resolved"
    /\ ~flushes[f].dispatched
    /\ flushes[f].left = 0
    /\ nDispatch >= 2
    /\ Cardinality(Snapshot(f)) >= 2

\* C8: every handle that leaves the queue, in a log call's cleanup or in a
\* flush, has isSettled = TRUE and a delivery that has ended.
C8_OnlySettledHandlesRemoved ==
  [][\A i \in 1..Len(queue) :
       queue[i] \notin Range(queue')
         => (handles[queue[i]].isSettled /\ handles[queue[i]].promise # "pending")]_vars

C8_Witness ==
  \E f, g \in FlushIds :
    /\ f # g
    /\ flushes[f].state = "resolved"
    /\ flushes[f].dispatched
    /\ flushes[f].left > 0
    /\ \E h \in Snapshot(g) \ Snapshot(f) : handles[h].io = "fetch"

\* C9 (as claimed): a level-function call whose parameter count equals the
\* placeholder count returns normally.
C9_MatchingArityReturns ==
  (last.op = "log" /\ last.arity = "equal") => last.result = "returned"

\* C10 (as claimed): no promise of a destination rejects without a
\* rejection handler.
C10_NoUnhandledRejection == unhandled = {}

\* C11: a destination whose active flag is false never has its log invoked
\* and no handle of its name exists, after any number of dispatches at any
\* level.
C11_InactiveNeverInvoked ==
  \A i \in 1..Len(destinations) :
    ~destinations[i].active
      => /\ calls[destinations[i].name] = 0
         /\ \A h \in 1..Len(handles) : handles[h].name # destinations[i].name

C11_Witness ==
  /\ nDispatch = MaxDispatch
  /\ \E i, j \in 1..Len(destinations) :
       /\ ~destinations[i].active
       /\ destinations[j].active
       /\ calls[destinations[j].name] = MaxDispatch
       /\ calls[destinations[i].name] = 0

\* The levels as specified: DEBUG < INFO < WARN < ERROR, each with a
\* lowercase alias.
Severity == <<"DEBUG", "INFO", "WARN", "ERROR">>

Aliases == <<"debug", "info", "warn", "error">>

Recognised == Range(Severity) \cup Range(Aliases)

Ordinal(l) == CHOOSE i \in 1..4 : Severity[i] = l \/ Aliases[i] = l

\* C12: for each built-in destination and each message level strictly below
\* the minimum level it was constructed with, log returns a handle that is
\* settled at creation, and neither writes to the console nor starts a fetch.
C12_BelowMinimumIsSettledNoIO ==
  (/\ probe.fn = "destination.log"
   /\ probe.minimum \in Recognised
   /\ Ordinal(probe.level) < Ordinal(probe.minimum))
    => /\ ~probe.out.threw
       /\ probe.out.handle.isSettled
       /\ probe.out.handle.promise = "fulfilled"
       /\ probe.out.handle.io = "none"

C12_Witness ==
  /\ probe.fn = "destination.log"
  /\ probe.name = "Microsoft Teams"
  /\ probe.minimum = "error"
  /\ probe.level = "WARN"
  /\ probe.properties # EmptyProps
  /\ probe.out.handle.isSettled
  /\ probe.out.handle.io = "none"

\* C13: over recognised levels canLogAtLevel(message, minimum) is true iff
\* the message level's ordinal is at least the minimum's; it is reflexive,
\* and monotonic: when it permits a level it permits every higher level for
\* the same minimum.
C13_CanLogIffOrdinalAtLeast ==
  (/\ probe.fn = "canLogAtLevel"
   /\ probe.message \in Recognised
   /\ probe.minimum \in Recognised)
    => /\ ~probe.out.threw
       /\ probe.out.value <=> Ordinal(probe.message) >= Ordinal(probe.minimum)
       /\ probe.message = probe.minimum => probe.out.value
       /\ probe.out.value
            => \A l \in Recognised :
                 Ordinal(l) > Ordinal(probe.message)
                   => canLogAtLevel(l, probe.minimum).value

C13_Witness ==
  /\ probe.fn = "canLogAtLevel"
  /\ probe.message = "WARN"
  /\ probe.minimum = "WARN"
  /\ probe.out.value

\* C14 (as claimed): in the library that offers critical and fatal, a
\* CRITICAL or FATAL message is permitted by every minimum level in DEBUG,
\* INFO, WARN, ERROR.
C14_CriticalFatalPermitted ==
  (/\ probe.fn = "canLogAtLevel/legacy"
   /\ probe.message \in {"CRITICAL", "FATAL"}
   /\ probe.minimum \in Range(Severity))
    => (~probe.out.threw /\ probe.out.value)

\* C15 (as claimed): canLogAtLevel throws whenever the message level or the
\* minimum level is not a recognised level.
C15_UnrecognisedLevelThrows ==
  (/\ probe.fn = "canLogAtLevel"
   /\ (probe.message \notin Recognised \/ probe.minimum \notin Recognised))
    => probe.out.threw

\* C16 (as claimed): constructing a built-in destination whose minimum-level
\* variable is set to a string that is not a recognised level throws.
C16_InvalidMinimumFailsConstruction ==
  (/\ probe.fn = "new"
   /\ probe.minimum \notin Recognised \cup {Undefined, ""})
    => probe.out.threw

\* C17: validateLogLevel returns true exactly for the eight spellings DEBUG,
\* INFO, WARN, ERROR, debug, info, warn, error and false for every other
\* string; it returns for every input.
C17_ValidateExactlyEightSpellings ==
  probe.fn = "validateLogLevel"
    => (probe.out <=> probe.level \in
          {"DEBUG", "INFO", "WARN", "ERROR", "debug", "info", "warn", "error"})

C17_Witness ==
  /\ probe.fn = "validateLogLevel"
  /\ probe.level = "Warn"
  /\ probe.out = FALSE

\* C18: a lowercase alias stands for its uppercase level: a call whose
\* minimum (or message level) is lowercase gives what the call with the
\* uppercase spelling in its place gives.
C18_LowercaseAliasSameOrdinal ==
  (/\ probe.fn = "canLogAtLevel"
   /\ probe.message \in Recognised
   /\ probe.minimum \in Recognised)
    => /\ probe.out = canLogAtLevel(probe.message, Severity[Ordinal(probe.minimum)])
       /\ probe.out = canLogAtLevel(Severity[Ordinal(probe.message)], probe.minimum)

C18_Witness ==
  /\ probe.fn = "canLogAtLevel"
  /\ probe.message = "INFO"
  /\ probe.minimum = "warn"
  /\ ~probe.out.threw
  /\ ~probe.out.value

RECURSIVE Positional(_, _, _, _)
\* The template with the span of its Nth token replaced by the rendering of
\* the Nth parameter, for every N: i is the position in the template, n the
\* number of the next token.
Positional(t, params, i, n) ==
  IF i > Len(t) THEN <<>>
  ELSE LET e == TokenEnd(t, i)
       IN IF e = 0 THEN <<t[i]>> \o Positional(t, params, i + 1, n)
          ELSE getParameterValue(SubSeq(t, i + 1, e - 1), params[n])
                 \o Positional(t, params, e + 1, n + 1)

\* C19 (as claimed): when the parameter count equals the placeholder count,
\* whatever the parameter values, the rendered message contains no token of
\* the placeholder grammar.
C19_NoTokenLeftInMessage ==
  (probe.fn = "format" /\ ~probe.out.threw)
    => messageParameters(probe.out.message) = <<>>

\* C20 (as claimed): the rendered message is the template with, for every N,
\* the Nth placeholder occurrence replaced by the rendering of the Nth
\* parameter.
C20_SubstitutionIsPositional ==
  (probe.fn = "format" /\ ~probe.out.threw)
    => probe.out.message
         = Positional(probe.messageTemplate, probe.params, 1, 1)

----------------------------------------------------------------------------
(* The message object and the log configuration (SpecConfig) *)

Sentinel == <<"N", "U", "L", "L">>

Nullish(value) == value.kind \in {"null", "undefined"}

\* The occurrence i of a name is its last one in the template.
LastOccurrence(tokens, i) ==
  \A j \in (i + 1)..Len(tokens) : cleanParam(tokens[j]) # cleanParam(tokens[i])

\* The record of a level function call that built a message object.
Logged == probe.fn = "log" /\ ~probe.out.threw

\* A null or undefined parameter shows as the text NULL in the rendered
\* message.
NullishRendersSentinelInMessage ==
  Logged =>
    \A i \in 1..Len(probe.params) :
      Nullish(probe.params[i]) => IndexOf(probe.out.message, Sentinel, 1) # 0

\* C21: a null or undefined parameter bound to a placeholder is the sentinel
\* text NULL both in the rendered message and in the value the properties
\* map holds for the placeholder, as a destination represents that value.
C21_NullishIsSentinelInMessageAndProperties ==
  Logged =>
    LET tokens == messageParameters(probe.messageTemplate)
    IN \A i \in 1..Len(probe.params) :
         Nullish(probe.params[i]) =>
           /\ IndexOf(probe.out.message, Sentinel, 1) # 0
           /\ LastOccurrence(tokens, i) =>
                getFactSetValue(probe.out.properties[cleanParam(tokens[i])])
                  = Sentinel

\* C22: after a successful format the properties map has an entry under the
\* de-braced, de-sigiled name of every placeholder of the template, and the
\* entry holds the parameter bound to the last occurrence of the name (null
\* standing for a nullish parameter), {Name} and {@Name} being one name.
C22_EveryPlaceholderKeyedLastWins ==
  Logged =>
    LET tokens == messageParameters(probe.messageTemplate)
    IN \A i \in 1..Len(tokens) :
         /\ cleanParam(tokens[i]) \in DOMAIN probe.out.properties
         /\ LastOccurrence(tokens, i) =>
              probe.out.properties[cleanParam(tokens[i])]
                = NullishCoalesce(probe.params[i])

\* {a}{@a} logged with two different parameters: the entry a holds the second.
C22_Witness ==
  /\ Logged
  /\ probe.messageTemplate = <<"{", "a", "}", "{", "@", "a", "}">>
  /\ probe.params = <<NullValue, StringValue(<<"x">>)>>
  /\ probe.out.properties[<<"a">>] = StringValue(<<"x">>)

\* The value a configuration holds for a key after logConfig(partial).
Merged(before, partial, key) ==
  IF key \in DOMAIN partial THEN partial[key] ELSE Get(before, key)

\* C24: logConfig merges additively. After logConfig(partial) each of
\* contextId, prefix and suffix that is a key of partial has partial's value
\* (undefined clears it) and every other field keeps its value; the record of
\* an earlier log call is not touched, and a later log call is built from the
\* configuration of its moment: its ContextId property, its prefix and its
\* suffix are the truthy fields of that configuration.
C24_LogConfigMergesAdditively ==
  [][/\ (config' # config \/ last' # last) =>
          /\ last'.op = "logConfig"
          /\ \A key \in {contextId, prefix, suffix} :
               Get(config', key) = Merged(config, last'.partial, key)
          /\ probe' = probe
     /\ (probe' # probe /\ ~probe'.out.threw) =>
          /\ config' = config
          /\ IF Falsy(Get(config, contextId))
               THEN <<"C", "o", "n", "t", "e", "x", "t", "I", "d">>
                      \notin DOMAIN probe'.out.properties
               ELSE probe'.out.properties[
                      <<"C", "o", "n", "t", "e", "x", "t", "I", "d">>]
                      = StringValue(Get(config, contextId))
          /\ Falsy(Get(config, prefix))
               \/ SubSeq(probe'.out.message, 1, Len(Get(config, prefix)))
                    = Get(config, prefix)
          /\ Falsy(Get(config, suffix))
               \/ SubSeq(probe'.out.message,
                         Len(probe'.out.message) - Len(Get(config, suffix)) + 1,
                         Len(probe'.out.message))
                    = Get(config, suffix)]_vars

\* After logConfig({contextId, suffix}) and logConfig({contextId: undefined,
\* prefix}): the suffix of the first call is kept, the contextId is cleared,
\* and a log call shows both the prefix and the suffix.
C24_Witness ==
  /\ config = [k \in {contextId, prefix, suffix} |->
                 CASE k = contextId -> UndefinedSeq
                   [] k = prefix -> <<"{", "a", "}">>
                   [] OTHER -> <<"s">>]
  /\ Logged
  /\ probe.messageTemplate = <<"h">>
  /\ probe.out.message = <<"{", "a", "}", " ", "-", " ", "h", " ", "-", " ", "s">>
  /\ {<<"P", "r", "e", "f", "i", "x">>, <<"S", "u", "f", "f", "i", "x">>}
       \subseteq DOMAIN probe.out.properties
  /\ <<"C", "o", "n", "t", "e", "x", "t", "I", "d">>
       \notin DOMAIN probe.out.properties

\* The message expected of a configuration, a template and its parameters:
\* the substituted template, 'p - ' in front for a non-empty prefix p and
\* ' - s' behind for a non-empty suffix s.
Decorated(logConfig, messageTemplate, params) ==
  (IF Falsy(Get(logConfig, prefix)) THEN <<>>
   ELSE Get(logConfig, prefix) \o <<" ", "-", " ">>)
  \o format(messageTemplate, params).message
  \o (IF Falsy(Get(logConfig, suffix)) THEN <<>>
      ELSE <<" ", "-", " ">> \o Get(logConfig, suffix))

\* C25: a log call succeeds or fails by the template and its parameters
\* alone (prefix and suffix take no part in placeholder counting); when it
\* succeeds the message is the substituted template with 'p - ' prepended
\* and ' - s' appended for the non-empty prefix p and suffix s of the
\* configuration, no placeholder inside them being substituted, and the
\* messageTemplate is the caller's template unchanged.
C25_PrefixSuffixAfterSubstitution ==
  [][probe' # probe =>
       /\ probe'.out.threw = format(probe'.messageTemplate, probe'.params).threw
       /\ ~probe'.out.threw =>
            /\ probe'.out.message
                 = Decorated(config, probe'.messageTemplate, probe'.params)
            /\ probe'.out.messageTemplate = probe'.messageTemplate]_vars

\* '{a}' logged with x under the prefix '{a}' and the suffix 's': the
\* placeholder of the prefix stays.
C25_Witness ==
  /\ Get(config, prefix) = <<"{", "a", "}">>
  /\ Get(config, suffix) = <<"s">>
  /\ Logged
  /\ probe.messageTemplate = <<"{", "a", "}">>
  /\ probe.params = <<StringValue(<<"x">>)>>
  /\ probe.out.message = <<"{", "a", "}", " ", "-", " ", "x", " ", "-", " ", "s">>

----------------------------------------------------------------------------
(* The overloaded error function (SpecProbe) *)

\* The number of placeholders of a template.
Placeholders(messageTemplate) == Len(messageParameters(messageTemplate))

\* C23: error(template, p1, ..., pk) with k placeholders in the template and
\* exactly k parameters does not throw and hands p1, ..., pk in order to the
\* formatter; error(exception, template, p1, ..., pk) does the same with the
\* exception attached.
C23_OverloadPassesAllParameters ==
  probe.fn = "error" =>
    /\ (/\ probe.args[1].kind = "string"
        /\ Len(probe.args) - 1 = Placeholders(probe.args[1].text))
         => /\ ~probe.out.threw
            /\ probe.out.params = SubSeq(probe.args, 2, Len(probe.args))
    /\ (/\ probe.args[1].kind = "error"
        /\ Len(probe.args) >= 2
        /\ probe.args[2].kind = "string"
        /\ Len(probe.args) - 2 = Placeholders(probe.args[2].text))
         => /\ ~probe.out.threw
            /\ probe.out.params = SubSeq(probe.args, 3, Len(probe.args))
            /\ probe.out.exception = probe.args[1]

\* The exception-first half of C23 alone.
ExceptionFirstPassesAllParameters ==
  (/\ probe.fn = "error"
   /\ probe.args[1].kind = "error"
   /\ Len(probe.args) >= 2
   /\ probe.args[2].kind = "string"
   /\ Len(probe.args) - 2 = Placeholders(probe.args[2].text))
    => /\ ~probe.out.threw
       /\ probe.out.params = SubSeq(probe.args, 3, Len(probe.args))
       /\ probe.out.exception = probe.args[1]

----------------------------------------------------------------------------
(* Dispatch order and the tracker's bookkeeping (Spec) *)

RegistrationOrder == <<"Console", "BetterStack", "Microsoft Teams">>

\* The active destinations, in registration order.
ActiveNames ==
  SelectSeq(RegistrationOrder,
            LAMBDA n : \E i \in 1..Len(destinations) :
                         destinations[i].name = n /\ destinations[i].active)

\* The step is a dispatch call that got past the arity check.
Dispatched == nDispatch' = nDispatch + 1

\* The handles the step created, in the order of their creation.
NewIds == [i \in 1..(Len(handles') - Len(handles)) |-> Len(handles) + i]

NewNames == [i \in 1..Len(NewIds) |-> handles'[NewIds[i]].name]

IsPrefix(s, t) == Len(s) <= Len(t) /\ s = SubSeq(t, 1, Len(s))

Increasing(q) == \A i, j \in 1..Len(q) : i < j => q[i] < q[j]

\* C26: one dispatch call invokes the active destinations in the order
\* Console, BetterStack, Microsoft Teams (all of them when no destination
\* throws, the first ones otherwise) and appends their handles to the queue
\* in that order; the queue keeps the handles in the order of their
\* creation, so the handles of an earlier call precede those of a later one.
C26_RegistrationOrderAndCallOrder ==
  [][Dispatched =>
       /\ IsPrefix(NewNames, ActiveNames)
       /\ last'.result = "returned" => NewNames = ActiveNames
       /\ Range(queue') \subseteq Range(queue) \cup Range(NewIds)
       /\ \A i \in 1..Len(NewIds) :
            ~handles'[NewIds[i]].isSettled => NewIds[i] \in Range(queue')
       /\ \A i \in 1..Len(queue), j \in 1..Len(NewIds) : queue[i] < NewIds[j]
       /\ Increasing(queue')]_vars

\* One error call to three active destinations: the handles are Console,
\* BetterStack, Microsoft Teams and the two pending ones are queued in that
\* order.
C26_Witness ==
  /\ Len(handles) = 3
  /\ [i \in 1..3 |-> handles[i].name] = RegistrationOrder
  /\ queue = <<2, 3>>

\* The unsettled handles held by the queue.
UnsettledInQueue == {h \in Range(queue) : ~handles[h].isSettled}

\* C27: no loss and no double count. A successful dispatch call creates one
\* handle per active destination; no handle is in the queue twice; every
\* handle that is not settled is in the queue; and after N dispatch calls to
\* M active destinations the queue holds at most N x M unsettled handles.
C27_NoLossNoDoubleCount ==
  [][/\ (Dispatched /\ last'.result = "returned")
          => Len(NewIds) = Len(ActiveNames)
     /\ (\A i, j \in 1..Len(queue) : queue[i] = queue[j] => i = j)'
     /\ (\A h \in 1..Len(handles) :
           ~handles[h].isSettled => h \in Range(queue))'
     /\ (Cardinality(UnsettledInQueue) <= nDispatch * Len(ActiveNames))']_vars

\* Two dispatch calls to Console and BetterStack: two pending handles, one
\* of each call, both in the queue.
C27_Witness ==
  /\ nDispatch = 2
  /\ queue = <<2, 4>>
  /\ UnsettledInQueue = {2, 4}

\* C28: isSettled is monotone. A flag that is true stays true through every
\* step (dispatch, cleanup, flush, another handle's settlement), and a flag
\* turns true only when the handle's own operation has reached a terminal
\* state.
C28_IsSettledMonotone ==
  [][/\ Len(handles') >= Len(handles)
     /\ \A h \in 1..Len(handles) :
          /\ handles[h].isSettled => handles'[h].isSettled
          /\ (~handles[h].isSettled /\ handles'[h].isSettled)
               => handles[h].promise \in {"fulfilled", "rejected"}]_vars

\* A handle flagged after its fetch failed while another handle is still
\* pending and not flagged.
C28_Witness ==
  \E h, g \in 1..Len(handles) :
    /\ handles[h].promise = "rejected" /\ handles[h].isSettled
    /\ handles[g].promise = "pending" /\ ~handles[g].isSettled

----------------------------------------------------------------------------
(* Which destinations are active (SpecProbe) *)

\* C29: a network destination is active iff all its required settings are
\* defined at construction: BetterStack iff both BETTERSTACK_URL and
\* BETTERSTACK_TOKEN are set, Microsoft Teams iff TEAMS_WEBHOOK_URL is set.
C29_NetworkActiveIffSettingsDefined ==
  probe.fn = "network" =>
    /\ probe.betterStack
         <=> (probe.url # Undefined /\ probe.token # Undefined)
    /\ probe.teams <=> probe.webhook # Undefined

\* The endpoint is set and the token is not: BetterStack is inactive.
C29_Witness ==
  /\ probe.fn = "network"
  /\ probe.url = "set"
  /\ probe.token = Undefined
  /\ ~probe.betterStack
  /\ probe.webhook = "set"
  /\ probe.teams

\* The settings a destination's fetch reads: defined for every fetch started.
FetchHasDefinedSettings ==
  \A h \in 1..Len(handles) :
    handles[h].io = "fetch" =>
      CASE handles[h].name = "BetterStack" ->
             env.BETTERSTACK_URL # Undefined /\ env.BETTERSTACK_TOKEN # Undefined
        [] handles[h].name = "Microsoft Teams" ->
             env.TEAMS_WEBHOOK_URL # Undefined
        [] OTHER -> FALSE

\* The text is 'true' in any letter case between leading and trailing
\* whitespace.
ReadsTrue(s) ==
  \E i \in 1..Len(s) :
    /\ i + 3 <= Len(s)
    /\ \A k \in 1..(i - 1) : s[k] \in Whitespace
    /\ \A k \in (i + 4)..Len(s) : s[k] \in Whitespace
    /\ s[i] \in {"t", "T"} /\ s[i + 1] \in {"r", "R"}
    /\ s[i + 2] \in {"u", "U"} /\ s[i + 3] \in {"e", "E"}

\* C30: the Console destination is active when CONSOLE_ENABLED is unset or
\* is 'true' and inactive when it is 'false'; for a set value it is active
\* iff the value, trimmed and lower-cased, is exactly 'true'.
C30_ConsoleActiveIffUnsetOrTrue ==
  probe.fn = "console" =>
    /\ probe.enabled = UndefinedSeq => probe.active
    /\ probe.enabled = <<"t", "r", "u", "e">> => probe.active
    /\ probe.enabled = <<"f", "a", "l", "s", "e">> => ~probe.active
    /\ probe.enabled # UndefinedSeq => (probe.active <=> ReadsTrue(probe.enabled))

\* ' TRUE' followed by a line feed: active.
C30_Witness ==
  /\ probe.fn = "console"
  /\ probe.enabled = <<" ", "T", "R", "U", "E", "\n">>
  /\ probe.active

----------------------------------------------------------------------------
(* The internal context hook (SpecContext) *)

\* C31: getInternalContext returns undefined until a provider is installed;
\* after setInternalContextProvider(p) every call returns what p returns at
\* that call, and of several providers installed the most recent one is the
\* one called.
C31_HookCallsLatestProviderNow ==
  [][probe' # probe =>
       /\ last = Idle => probe'.out = UndefinedContext
       /\ last.op = "setInternalContextProvider"
            => probe'.out = store[last.provider]]_vars

\* q was installed while it returned undefined; its store then changed, and
\* the hook returns the new value; p was installed before and is not called.
C31_Witness ==
  /\ probe.fn = "getInternalContext"
  /\ last.op = "setInternalContextProvider"
  /\ last.provider = "q"
  /\ last.then = UndefinedContext
  /\ store["q"] = Context([k \in {contextId} |-> <<"B">>])
  /\ store["p"] = Context([k \in {contextId} |-> <<"A">>])
  /\ probe.out = store["q"]

----------------------------------------------------------------------------
(* A destination that throws during dispatch (Spec) *)

\* The destinations whose log() the step invoked.
Invoked == {n \in DOMAIN calls : calls'[n] = calls[n] + 1}

\* The destination that was invoked and returned no handle: its log() threw.
Thrower == {n \in Invoked : \A i \in 1..Len(NewNames) : NewNames[i] # n}

\* C32: when a destination's log throws during dispatch the caller of the
\* level function gets the exception; a call returns normally only when
\* every destination it invoked returned a handle.
C32_DestinationThrowPropagates ==
  [][Dispatched =>
       (last'.result = "threw destination" <=> Thrower # {})]_vars

\* BetterStack threw on a message it was asked to serialise: the caller saw
\* the exception.
C32_Witness ==
  /\ last.op = "log"
  /\ last.result = "threw destination"
  /\ calls["BetterStack"] = 1
  /\ \A h \in 1..Len(handles) : handles[h].name # "BetterStack"

\* C39: a dispatch aborted by destination k's throw is not rolled back. The
\* destinations invoked are the first k active ones, the handles of the
\* k - 1 before the thrower are in the queue behind what was there, no
\* destination after k is invoked, and no handle is removed from the queue,
\* settled or not: the cleanup at the end of the call does not run.
C39_AbortedDispatchNotRolledBack ==
  [][(Dispatched /\ last'.result = "threw destination") =>
       \E k \in 1..Len(ActiveNames) :
         /\ Invoked = {ActiveNames[i] : i \in 1..k}
         /\ Thrower = {ActiveNames[k]}
         /\ NewNames = SubSeq(ActiveNames, 1, k - 1)
         /\ queue' = queue \o NewIds]_vars

\* BetterStack threw with Microsoft Teams active behind it: the Console
\* handle, settled, is still in the queue, Teams was not invoked, and a
\* flush called afterwards took that handle into its snapshot.
C39_Witness ==
  /\ \E i \in 1..Len(destinations) :
       destinations[i].name = "Microsoft Teams" /\ destinations[i].active
  /\ calls["BetterStack"] = 1
  /\ calls["Microsoft Teams"] = 0
  /\ nDispatch = 1
  /\ Len(handles) = 1
  /\ handles[1].isSettled
  /\ Len(flushes) = 1
  /\ flushes[1].snapshot = <<1>>

----------------------------------------------------------------------------
(* cleanupQueue called directly (SpecProbe) *)

\* C33: cleanupQueue leaves the queue equal to the subsequence of its
\* previous contents whose isSettled is false, in their original order:
\* every settled handle is removed in the one pass and no unsettled handle
\* is removed or moved.
C33_CleanupKeepsUnsettledInOrder ==
  probe.fn = "cleanupQueue" =>
    probe.out = SelectSeq(probe.queue, LAMBDA h : ~probe.handles[h].isSettled)

\* Two settled handles next to each other between two unsettled ones: both
\* are removed.
C33_Witness ==
  /\ probe.fn = "cleanupQueue"
  /\ [i \in 1..Len(probe.handles) |-> probe.handles[i].isSettled]
       = <<FALSE, TRUE, TRUE, FALSE>>
  /\ probe.out = <<1, 4>>

----------------------------------------------------------------------------
(* The queue right after a log call (Spec) *)

\* The step is a dispatch call that returned normally.
LogReturned == Dispatched /\ last'.result = "returned"

\* The step is the continuation of a flush after its wait.
FlushResumed ==
  \E f \in 1..Len(flushes) :
    flushes[f].state # "resolved" /\ flushes'[f].state = "resolved"

\* C34: right after a log call returns normally the queue holds no handle
\* whose isSettled is true; a call whose destinations are all synchronous or
\* level-filtered leaves none of its handles in the queue; and apart from
\* log calls only a flush changes the queue, so without a flush the queue is
\* no longer than the handles not yet flagged at the last log call.
C34_NoSettledHandleAfterLog ==
  [][/\ LogReturned =>
          /\ \A i \in 1..Len(queue') : ~handles'[queue'[i]].isSettled
          /\ (\A i \in 1..Len(NewIds) : handles'[NewIds[i]].isSettled)
               => Range(queue') \cap Range(NewIds) = {}
          /\ Len(queue') <= Cardinality({h \in 1..Len(handles') :
                                           ~handles'[h].isSettled})
     /\ (~Dispatched /\ ~FlushResumed) => queue' = queue]_vars

\* A debug call to Console and BetterStack: Console wrote at once, the
\* message is below BetterStack's minimum, and the queue is empty.
C34_Witness ==
  /\ last.op = "log"
  /\ last.result = "returned"
  /\ Len(handles) = 2
  /\ handles[1].name = "Console" /\ handles[1].io = "console"
  /\ handles[2].name = "BetterStack" /\ handles[2].io = "none"
  /\ queue = <<>>

----------------------------------------------------------------------------
(* The flags when a flush's wait completes (Spec) *)

\* C35: when a flush's wait completes, every handle of its snapshot already
\* has isSettled = TRUE (the handle's own callback ran before the flush's
\* continuation), and once the flush has completed none of them is in the
\* queue.
C35_SnapshotFlaggedWhenWaitCompletes ==
  \A f \in FlushIds :
    /\ flushes[f].state \in {"joined", "resolved"}
         => \A h \in Snapshot(f) : handles[h].isSettled
    /\ flushes[f].state = "resolved"
         => Snapshot(f) \cap Range(queue) = {}

\* The wait of a flush over two deliveries has completed and its
\* continuation has not run yet: both handles are flagged and still queued.
C35_Witness ==
  \E f \in FlushIds :
    /\ flushes[f].state = "joined"
    /\ Cardinality(Snapshot(f)) = 2
    /\ \A h \in Snapshot(f) :
         handles[h].io = "fetch" /\ handles[h].isSettled /\ h \in Range(queue)

\* C36: for every handle a built-in destination created, isSettled = TRUE
\* implies that the handle's promise is fulfilled or rejected: the flag is
\* never true while the delivery is in flight.
C36_FlagImpliesTerminal ==
  \A h \in 1..Len(handles) :
    handles[h].isSettled => handles[h].promise \in {"fulfilled", "rejected"}

\* One delivery has ended and is flagged; another has ended and is not
\* flagged yet.
C36_Witness ==
  \E h, g \in 1..Len(handles) :
    /\ handles[h].io = "fetch" /\ handles[g].io = "fetch"
    /\ handles[h].promise = "fulfilled" /\ handles[h].isSettled
    /\ handles[g].promise = "fulfilled" /\ ~handles[g].isSettled

----------------------------------------------------------------------------
(* Interleaved requests and the process-wide configuration (SpecRequests) *)

ContextIdKey == <<"C", "o", "n", "t", "e", "x", "t", "I", "d">>

\* The step is a log call of the request.
Logs(request) ==
  requests[request] = "suspended" /\ requests'[request] = "logged"

\* C37: the configuration is shared by all callers. The contextId a log
\* call carries is the one of the most recent logConfig call at that time,
\* whichever request made it, so a request that logs after a suspension can
\* carry the contextId of the other request.
C37_LogCarriesMostRecentContextId ==
  [][\A r \in Requests :
       (Logs(r) /\ ~probe'.out.threw) =>
         /\ last.op = "logConfig"
         /\ probe'.out.properties[ContextIdKey]
              = StringValue(last.partial[contextId])]_vars

\* Request A configured its contextId, B configured its own while A was
\* suspended, and A's message carries B's.
C37_Witness ==
  /\ Logged
  /\ probe.request = "A"
  /\ requests["A"] = "logged"
  /\ requests["B"] = "suspended"
  /\ probe.out.properties[ContextIdKey] = StringValue(<<"B">>)

----------------------------------------------------------------------------
(* Placeholders and the enrichment entries of the properties (SpecEnrich)  *)

\* The names of the enrichment entries.
AppNameKey == <<"A", "p", "p", "N", "a", "m", "e">>

VersionKey == <<"V", "e", "r", "s", "i", "o", "n">>

EnvironmentNameKey == <<"E", "n", "v", "i", "r", "o", "n", "m", "e", "n", "t", "N", "a", "m", "e">>

FunctionNameKey == <<"F", "u", "n", "c", "t", "i", "o", "n", "N", "a", "m", "e">>

FileNameKey == <<"F", "i", "l", "e", "N", "a", "m", "e">>

FilePathKey == <<"F", "i", "l", "e", "P", "a", "t", "h">>

LineNumberKey == <<"L", "i", "n", "e", "N", "u", "m", "b", "e", "r">>

ColumnNumberKey == <<"C", "o", "l", "u", "m", "n", "N", "u", "m", "b", "e", "r">>

\* The value the enrichment gives a name: of the runtime information, of
\* the configuration or of the caller; undefined when it gives none.
EnrichmentValue(this, logConfig, K) ==
  CASE K = AppNameKey /\ this.runtimeInfo.appName # UndefinedSeq
         -> StringValue(this.runtimeInfo.appName)
    [] K = VersionKey /\ this.runtimeInfo.version # UndefinedSeq
         -> StringValue(this.runtimeInfo.version)
    [] K = EnvironmentNameKey -> StringValue(this.runtimeInfo.environmentName)
    [] K = pascalCase(contextId) /\ ~Falsy(Get(logConfig, contextId))
         -> StringValue(Get(logConfig, contextId))
    [] K = pascalCase(prefix) /\ ~Falsy(Get(logConfig, prefix))
         -> StringValue(Get(logConfig, prefix))
    [] K = pascalCase(suffix) /\ ~Falsy(Get(logConfig, suffix))
         -> StringValue(Get(logConfig, suffix))
    [] K = FunctionNameKey /\ this.callingInfo.kind # "undefined"
         -> this.callingInfo.functionName
    [] K = FileNameKey /\ this.callingInfo.kind # "undefined"
         -> this.callingInfo.fileName
    [] K = FilePathKey /\ this.callingInfo.kind # "undefined"
         -> this.callingInfo.filePath
    [] K = LineNumberKey /\ this.callingInfo.kind # "undefined"
         -> this.callingInfo.lineNumber
    [] K = ColumnNumberKey /\ this.callingInfo.kind # "undefined"
         -> this.callingInfo.columnNumber
    [] OTHER -> UndefinedValue

\* The record of a log call of some logger that built a message object.
Enriched == probe.fn = "messageObject" /\ ~probe.out.threw

\* C38: the placeholders are written into the properties after the
\* enrichment entries: under the name of a placeholder, enrichment key or
\* not, the properties hold the parameter of the placeholder's last
\* occurrence (null for a nullish one), never the enrichment value; every
\* other enrichment entry is the enrichment's, and the properties hold
\* nothing else.
C38_PlaceholderReplacesEnrichment ==
  Enriched =>
    LET tokens == messageParameters(probe.messageTemplate)
        names == {cleanParam(tokens[i]) : i \in 1..Len(tokens)}
        given == {K \in PropertyNames :
                    EnrichmentValue(probe.this, probe.logConfig, K)
                      # UndefinedValue}
    IN /\ DOMAIN probe.out.properties = names \cup given
       /\ \A i \in 1..Len(tokens) :
            LastOccurrence(tokens, i) =>
              probe.out.properties[cleanParam(tokens[i])]
                = NullishCoalesce(probe.params[i])
       /\ \A K \in given \ names :
            probe.out.properties[K]
              = EnrichmentValue(probe.this, probe.logConfig, K)

\* A call with the template {LineNumber} and the parameter x by a logger
\* that found its caller at line 7: the properties hold x under LineNumber,
\* and the column of the caller under ColumnNumber.
C38_Witness ==
  /\ Enriched
  /\ probe.messageTemplate = <<"{">> \o LineNumberKey \o <<"}">>
  /\ probe.params = <<StringValue(<<"x">>)>>
  /\ EnrichmentValue(probe.this, probe.logConfig, LineNumberKey)
       = [kind |-> "number", text |-> <<"7">>]
  /\ probe.out.properties[LineNumberKey] = StringValue(<<"x">>)
  /\ probe.out.properties[ColumnNumberKey]
       = [kind |-> "number", text |-> <<"3">>]

----------------------------------------------------------------------------
(* Log calls before the imports have resolved (SpecDynamic)                *)

\* The names of the registered destinations, in registration order.
Registered == [i \in 1..Len(destinations) |-> destinations[i].name]

\* The step is the resolution of an import.
Resolved == imports' # imports

\* C40: a log call is dispatched only to the destinations registered at
\* the call: no handle is pushed for a destination whose import has not
\* resolved, and such a destination has never been invoked; the resolution
\* of an import hands no earlier message to the new destination (no
\* handle, no invocation), and it puts the destination behind those
\* registered before it, so the registration order is the completion
\* order of the imports.
C40_DispatchOnlyToRegistered ==
  [][/\ \A n \in imports : calls[n] = 0 /\ n \notin Range(Registered)
     /\ Dispatched =>
          /\ Range(NewNames) \subseteq Range(Registered)
          /\ Range(NewNames) \cap imports = {}
          /\ \A n \in imports : calls'[n] = 0
          /\ destinations' = destinations
          /\ imports' = imports
     /\ Resolved =>
          /\ \E n \in imports :
               /\ imports' = imports \ {n}
               /\ Len(destinations') = Len(destinations) + 1
               /\ SubSeq(destinations', 1, Len(destinations)) = destinations
               /\ destinations'[Len(destinations')].name = n
          /\ handles' = handles
          /\ queue' = queue
          /\ calls' = calls]_vars

\* A first log call at level ERROR found nothing registered and pushed no
\* handle; a second one found Microsoft Teams, the only import resolved so
\* far and so the first destination, and pushed one handle, for it; Console
\* has never been invoked.
C40_Witness ==
  /\ nDispatch = 2
  /\ imports = {"Console", "BetterStack"}
  /\ Registered = <<"Microsoft Teams">>
  /\ Len(handles) = 1
  /\ handles[1].name = "Microsoft Teams"
  /\ calls["Console"] = 0
  /\ calls["Microsoft Teams"] = 1

============================================================================
